---- MODULE Spec2Model ----
(***************************************************************************)
(* DocumentBroker (wsd/DocumentBroker.cpp): the per-document coordinator.  *)
(* One broker object, its poll thread, its sessions, the kit (child) it    *)
(* talks to and the storage it saves to.                                   *)
(*                                                                         *)
(* The broker object is the record `broker`; every C++ method is an        *)
(* operator from a broker record to the broker record it leaves behind,    *)
(* so that a handler which calls other methods is one action.              *)
(* Time is the steady clock in units of COMMAND_TIMEOUT_MS (30 s), read in *)
(* steps of ClockStep units: two readings of one step are within the       *)
(* command timeout of each other, readings of different steps are not.     *)
(***************************************************************************)
EXTENDS Integers, Sequences, FiniteSets, TLC

\* ---------------------------------------------------------------- bounds
MaxSessions == 2      \* session ids handed out by the acceptor
MaxTicks == 1         \* the steady clock advances MaxTicks times
MaxPendingSaves == 2  \* save commands the kit has not answered yet
MaxTileVersion == 3   \* tile requests served by the broker
MaxTiles == 1         \* distinct tile descriptors of "tile" requests
MaxCombinedTiles == 2 \* distinct tile descriptors of "tilecombine" requests
MaxMTime == 1         \* timestamps the jailed file can carry: 1..MaxMTime
MaxTokens == 2        \* distinct access tokens presented by sessions
MaxStorageTime == 2   \* modified times the storage can report: 1..MaxStorageTime
MaxPathLen == 2       \* characters of a URI's path after its leading "/"
MaxCallers == 2       \* request handlers of the process that run at a time
MaxDocBrokers == 3    \* brokers the process constructs
MaxFindRetries == 1   \* times find-or-create waits for a broker's removal
MaxFlushPolls == 12   \* turns of the flush loop that find a socket in the poll

\* ------------------------------------------------------ program constants
\* COMMAND_TIMEOUT_MS, the unit of time of the model.
CommandTimeout == 1
\* The step of the clock: longer than the command timeout.
ClockStep == CommandTimeout + 1
\* "autosave.autosaving": seconds between autosave ticks (30 s, one unit).
savingtime == 1
\* "per_document.idle_timeout_secs" (3600 s), scaled down to a clock step.
IdleDocTimeoutSecs == 2
\* IdleSaveDurationMs (30 s) and AutoSaveDurationMs (300 s, scaled down) of
\* autoSave(force = false).
IdleSaveDurationMs == 1
AutoSaveDurationMs == 2
\* POLL_TIMEOUT_MS, in units of a fifth of it (the longest wait of one poll
\* of the flush loop), and flushTimeoutMs of pollThread().
POLL_TIMEOUT_MS == 5
flushTimeoutMs == POLL_TIMEOUT_MS * 2
\* LOOL_NO_AUTOSAVE is not set.
AutoSaveEnabled == TRUE

SessionIds == 1..MaxSessions
TileIds == 1..MaxTiles
\* The tiles of the document: those a "tilecombine" can name.
CombinedTileIds == 1..MaxCombinedTiles
NoSession == 1 - 1

\* StorageBase::SaveResult
SaveResults == {"OK", "DISKFULL", "UNAUTHORIZED", "FAILED"}
\* What the kit reports in "unocommandresult:" for .uno:Save: <<success, result>>.
KitSaveResults == {<<TRUE, "ok">>, <<FALSE, "unmodified">>, <<FALSE, "error">>}
\* What the storage answers to a load: file info and file, an invalid file
\* info, or an exception (connection, token, quota).
LoadResponses == {"ok", "invalid", "throw"}
\* The broker's poll thread, and any other thread of the process.
Threads == {"loop", "other"}

\* Timestamps of the jailed file (Poco::File::getLastModified); 0 is the epoch.
FileTimes == 1..MaxMTime

\* Access tokens (ClientSession::getAccessToken).
Tokens == 1..MaxTokens
\* What load() reads of a session's public URI: the kind of storage the URI
\* selects in StorageBase::create, its access token, and "docpass=yes".
Uris == [wopi : BOOLEAN, token : Tokens, docpass : BOOLEAN]
\* The URI of a document on local storage.
LocalUri == [wopi |-> FALSE, token |-> 1, docpass |-> FALSE]
\* FileInfo::_modifiedTime as the storage reports it; 0 is the epoch.
StorageTimes == 1..MaxStorageTime
\* The modified time of a document that nobody changes behind the broker.
FirstStorageTime == 1

VARIABLES
    broker,              \* the DocumentBroker object (fields as in the source)
    pc,                  \* where pollThread() is: spawn, loop, flush, done
    now,                 \* std::chrono::steady_clock::now()
    last30SecCheckTime,  \* local of pollThread()
    nextSessionId,       \* the id of the next session to be admitted
    tokens,              \* the "tokens" table of storage.wopi.tokendb_path
    wsd,                 \* the process: the broker registry and the requests it serves
    lastOp               \* history: the last operation and how it ended

vars == <<broker, pc, now, last30SecCheckTime, nextSessionId, tokens, wsd, lastOp>>

Min(S) == CHOOSE x \in S : \A y \in S : x <= y

\* ------------------------------------------------------------ the object
\* A constructor that stamps the save request with the time of the
\* construction and backdates the last save.
NewBroker_requestStamped(t, idle0) ==
    [ _sessions            |-> {},
      readOnly             |-> {},
      documentOwner        |-> {},
      viewLoaded           |-> {},
      _stop                |-> FALSE,
      _markToDestroy       |-> FALSE,
      _lastEditableSession |-> FALSE,
      _isLoaded            |-> FALSE,
      _isModified          |-> FALSE,
      unsavedChanges       |-> FALSE,
      _storage             |-> "null",
      wopi                 |-> FALSE,
      _documentLastModifiedTime |-> 0,
      _childProcess        |-> "null",
      _lastSaveTime        |-> t - CommandTimeout,
      _lastSaveRequestTime |-> t,
      _lastFileModifiedTime |-> 0,
      _lastActivityTime    |-> idle0,
      _tileVersion         |-> 0,
      cachedTiles          |-> {},
      tilesBeingRendered   |-> [t2 \in CombinedTileIds |-> {}],
      kitSessions          |-> {},
      kitSaves             |-> <<>>,
      kitTiles             |-> [t2 \in CombinedTileIds |-> 0] ]

\* DocumentBroker::DocumentBroker.  t is steady_clock::now(), idle0 the value
\* of the default-constructed _lastActivityTime (the clock's epoch).
NewBroker(t, idle0) ==
    [ _sessions            |-> {},
      readOnly             |-> {},     \* ClientSession::isReadOnly
      documentOwner        |-> {},     \* ClientSession::isDocumentOwner
      viewLoaded           |-> {},     \* ClientSession::isViewLoaded
      _stop                |-> FALSE,
      _markToDestroy       |-> FALSE,
      _lastEditableSession |-> FALSE,
      _isLoaded            |-> FALSE,
      _isModified          |-> FALSE,
      unsavedChanges       |-> FALSE,  \* TileCache::_hasUnsavedChanges
      _storage             |-> "null", \* null, created, loaded
      wopi                 |-> FALSE,  \* _storage is a WopiStorage
      _documentLastModifiedTime |-> 0,
      _childProcess        |-> "null", \* null, alive, dead, closed
      _lastSaveTime        |-> t,
      _lastSaveRequestTime |-> t - CommandTimeout,
      _lastFileModifiedTime |-> 0,
      _lastActivityTime    |-> idle0,
      _tileVersion         |-> 0,
      cachedTiles          |-> {},     \* TileCache: tiles with bytes
      tilesBeingRendered   |-> [t2 \in CombinedTileIds |-> {}],  \* TileCache: subscribers
      kitSessions          |-> {},     \* sessions the kit was sent "session <id>", and no "disconnect", for
      kitSaves             |-> <<>>,   \* "child-<id> uno .uno:Save" the kit has yet to answer
      kitTiles             |-> [t2 \in CombinedTileIds |-> 0] ] \* "tile" requests the kit has yet to answer

\* The save-in-progress test of pollThread().
SaveInProgress(b, t) ==
    /\ b._lastSaveTime < b._lastSaveRequestTime
    /\ t - b._lastSaveRequestTime <= CommandTimeout

\* DocumentBroker::getIdleTimeSecs
getIdleTimeSecs(b, t) == t - b._lastActivityTime

\* ---------------------------------------------------------------- saving
\* DocumentBroker::forwardToChild: true iff the view is a session of the map.
forwardToChild(b, viewId) == viewId \in b._sessions

\* DocumentBroker::sendUnoSave: the return value.
sendUnoSaveSent(b, sessionId) == forwardToChild(b, sessionId)

\* A sendUnoSave that leaves the timestamp of the last persisted file alone.
sendUnoSave_keepsTimestamp(b, sessionId, departing, t) ==
    IF sessionId \in b._sessions
    THEN [b EXCEPT !.kitSaves = IF b._childProcess = "alive"
                                THEN Append(@, [sid |-> sessionId, departing |-> departing])
                                ELSE @,
                   !._lastSaveRequestTime = t]
    ELSE b

\* DocumentBroker::sendUnoSave: the broker it leaves.  departing is history:
\* the session whose removal waits for this save (NoSession if none).  A
\* frame sent to a kit that is gone is lost.
sendUnoSave(b, sessionId, departing, t) ==
    IF sessionId \in b._sessions
    THEN [b EXCEPT !._lastFileModifiedTime = 0,
                   !.kitSaves = IF b._childProcess = "alive"
                                THEN Append(@, [sid |-> sessionId, departing |-> departing])
                                ELSE @,
                   !._lastSaveRequestTime = t]
    ELSE b

\* An autoSave that always uses the first session of the map.
savingSessionId_firstSession(b) == Min(b._sessions)

\* autoSave: "Which session to use when auto saving ?"  The map iterates in
\* id order; the first session is taken unless a document owner is met.
savingSessionId(b) ==
    IF b._sessions \cap b.documentOwner # {}
    THEN Min(b._sessions \cap b.documentOwner)
    ELSE Min(b._sessions)

\* ChildProcess::isAlive: false once the kit's socket has terminated or the
\* child has been closed.
isAlive(b) == b._childProcess = "alive"

\* An autoSave that has nothing to do for an unmodified document, forced or not.
autoSaveNothingToDo_unmodified(b, force) ==
    \/ b._sessions = {}
    \/ b._storage = "null"
    \/ ~b._isLoaded
    \/ ~isAlive(b)
    \/ ~b._isModified

\* DocumentBroker::autoSave: the early return.
autoSaveNothingToDo(b, force) ==
    \/ b._sessions = {}
    \/ b._storage = "null"
    \/ ~b._isLoaded
    \/ ~isAlive(b)
    \/ (~b._isModified /\ ~force)

\* DocumentBroker::autoSave: the return value.
autoSaveSent(b, force, t) ==
    /\ ~autoSaveNothingToDo(b, force)
    /\ \/ force
       \/ /\ b._isModified
          /\ \/ t - b._lastActivityTime >= IdleSaveDurationMs
             \/ t - b._lastSaveTime >= AutoSaveDurationMs
    /\ sendUnoSaveSent(b, savingSessionId(b))

\* DocumentBroker::autoSave: the broker it leaves.
autoSave(b, force, departing, t) ==
    IF autoSaveSent(b, force, t)
    THEN sendUnoSave(b, savingSessionId(b), departing, t)
    ELSE b

\* ------------------------------------------------------------- sessions
\* A destroyIfLastEditor that counts every other writer, loaded or not.
destroyIfLastEditor_anyWriter(b, id) ==
    IF id \notin b._sessions
    THEN b
    ELSE [b EXCEPT
            !._lastEditableSession =
                /\ id \notin b.readOnly
                /\ ~\E s \in b._sessions : s # id /\ s \notin b.readOnly,
            !._markToDestroy = (Cardinality(b._sessions) <= 1)]

\* DocumentBroker::destroyIfLastEditor
destroyIfLastEditor(b, id) ==
    IF id \notin b._sessions
    THEN b
    ELSE [b EXCEPT
            !._lastEditableSession =
                /\ id \notin b.readOnly
                /\ ~\E s \in b._sessions :
                       s # id /\ s \in b.viewLoaded /\ s \notin b.readOnly,
            !._markToDestroy = (Cardinality(b._sessions) <= 1)]

\* DocumentBroker::removeSessionInternal
removeSessionInternal(b, id) ==
    IF id \in b._sessions
    THEN [b EXCEPT !._sessions = @ \ {id},
                   !.kitSessions = @ \ {id},
                   !.readOnly = @ \ {id},
                   !.documentOwner = @ \ {id},
                   !.viewLoaded = @ \ {id}]
    ELSE b

\* DocumentBroker::removeSession: true iff the removal is left to the save path.
removeSessionDefers(b, id, destroyIfLast, t) ==
    LET b1 == IF destroyIfLast THEN destroyIfLastEditor(b, id) ELSE b
    IN  b1._lastEditableSession /\ autoSaveSent(b1, TRUE, t)

\* A removeSession that tells the kit of the disconnect when it defers the
\* removal to the save.
removeSession_disconnectsBeforeSave(b, id, destroyIfLast, t) ==
    LET b1 == IF destroyIfLast THEN destroyIfLastEditor(b, id) ELSE b
    IN  IF ~b1._lastEditableSession \/ ~autoSaveSent(b1, TRUE, t)
        THEN removeSessionInternal(b1, id)
        ELSE [autoSave(b1, TRUE, IF id \in b1._sessions THEN id ELSE NoSession, t)
                 EXCEPT !.kitSessions = @ \ {id}]

\* A removeSession that recomputes the flags whatever destroyIfLast says.
removeSession_alwaysRecomputes(b, id, destroyIfLast, t) ==
    LET b1 == destroyIfLastEditor(b, id)
    IN  IF ~b1._lastEditableSession \/ ~autoSaveSent(b1, TRUE, t)
        THEN removeSessionInternal(b1, id)
        ELSE autoSave(b1, TRUE, IF id \in b1._sessions THEN id ELSE NoSession, t)

\* A removeSession that leaves the last editor in the map whether or not
\* the forced save was sent.
removeSession_defersWithoutSave(b, id, destroyIfLast, t) ==
    LET b1 == IF destroyIfLast THEN destroyIfLastEditor(b, id) ELSE b
    IN  IF ~b1._lastEditableSession
        THEN removeSessionInternal(b1, id)
        ELSE autoSave(b1, TRUE, IF id \in b1._sessions THEN id ELSE NoSession, t)

\* DocumentBroker::removeSession
removeSession(b, id, destroyIfLast, t) ==
    LET b1 == IF destroyIfLast THEN destroyIfLastEditor(b, id) ELSE b
    IN  IF ~b1._lastEditableSession \/ ~autoSaveSent(b1, TRUE, t)
        THEN removeSessionInternal(b1, id)
        ELSE autoSave(b1, TRUE, IF id \in b1._sessions THEN id ELSE NoSession, t)

\* -------------------------------------------------------------- loading
\* What the storage answers to a load whose file info is fine but whose
\* download fails: an exception of the connection, or StorageSpaceLowException.
DownloadFailures == {"throwDownload", "throwSpaceLow"}

\* alertAllUsers("internal", "diskfull")
InternalDiskFull == "error: cmd=internal kind=diskfull"

\* DocumentBroker::tokenUsed: the return value: true iff the token was not
\* yet in the table.
tokenUsed(ledger, accessToken) == accessToken \notin ledger

\* DocumentBroker::tokenUsed: the table it leaves: an absent token is inserted.
tokenUsedInserts(ledger, accessToken) == ledger \cup {accessToken}

\* load(): whether _storage is, or is created as, a WopiStorage.
loadIsWopi(b, uri) == IF b._storage = "null" THEN uri.wopi ELSE b.wopi

\* load(): true iff tokenUsed() is called.
loadChecksToken(b, uri) == ~b._markToDestroy /\ loadIsWopi(b, uri)

\* A token check that does not look at "docpass".
loadRefusesToken_ignoresDocpass(b, ledger, uri) ==
    loadChecksToken(b, uri) /\ ~tokenUsed(ledger, uri.token)

\* load(): "if (!tokenUsed(session->getAccessToken()) && nocheck) throw".
loadRefusesToken(b, ledger, uri) ==
    loadChecksToken(b, uri) /\ ~tokenUsed(ledger, uri.token) /\ ~uri.docpass

\* load(): the token table it leaves.
loadTokens(b, ledger, uri) ==
    IF loadChecksToken(b, uri) THEN tokenUsedInserts(ledger, uri.token) ELSE ledger

\* A load that downloads the file for every session.
loadDownloads_always(b) == TRUE

\* load(): "Let's load the document now, if not loaded."
loadDownloads(b) == b._storage # "loaded"

\* load() without its "marked to destroy" refusal.
loadResult_ignoresMarkToDestroy(b, ledger, uri, resp) ==
    IF loadRefusesToken(b, ledger, uri) THEN "throw"
    ELSE IF resp = "throw" THEN "throw"
    ELSE IF resp = "invalid" THEN "false"
    ELSE IF resp \in DownloadFailures /\ loadDownloads(b) THEN "throw"
    ELSE "true"

\* DocumentBroker::load: "true", "false" or "throw".  resp is what the
\* storage answers: "throw" is an exception of the file-info call.
loadResult(b, ledger, uri, resp) ==
    IF b._markToDestroy THEN "false"
    ELSE IF loadRefusesToken(b, ledger, uri) THEN "throw"
    ELSE IF resp = "throw" THEN "throw"
    ELSE IF resp = "invalid" THEN "false"
    ELSE IF resp \in DownloadFailures /\ loadDownloads(b) THEN "throw"
    ELSE "true"

\* DocumentBroker::load: the broker it leaves.  modifiedTime is the
\* FileInfo::_modifiedTime the storage reports, diskMTime the timestamp of
\* the local copy after the download.
load(b, ledger, uri, resp, diskMTime, modifiedTime) ==
    IF b._markToDestroy
    THEN b
    ELSE LET firstInstance == b._storage = "null"
             b1 == IF firstInstance
                   THEN [b EXCEPT !._storage = "created", !.wopi = uri.wopi]
                   ELSE b
             b2 == IF firstInstance
                   THEN [b1 EXCEPT !._documentLastModifiedTime = modifiedTime]
                   ELSE b1
         IN  IF loadRefusesToken(b, ledger, uri) \/ resp \in {"throw", "invalid"}
             THEN b1
             ELSE IF loadDownloads(b2) /\ resp = "ok"
             THEN [b2 EXCEPT !._storage = "loaded",
                             !._lastFileModifiedTime = diskMTime,
                             !.cachedTiles = {},
                             !.tilesBeingRendered = [t2 \in CombinedTileIds |-> {}],
                             !.unsavedChanges = FALSE]
             ELSE b2

\* An addSessionInternal that leaves a stopping broker stopping.
addSessionInternal_keepsStop(b, id, canWrite, owner) ==
    [b EXCEPT !._lastEditableSession = FALSE,
              !._markToDestroy = FALSE,
              !.kitSessions = IF b._childProcess = "alive" THEN @ \cup {id} ELSE @,
              !._sessions = @ \cup {id},
              !.readOnly = IF canWrite THEN @ \ {id} ELSE @ \cup {id},
              !.documentOwner = IF owner THEN @ \cup {id} ELSE @ \ {id}]

\* DocumentBroker::addSessionInternal: the return value, _sessions.size()
\* after the session is emplaced.
addSessionInternalCount(b, id) == Cardinality(b._sessions \cup {id})

\* DocumentBroker::addSessionInternal, after load() has returned true.
addSessionInternal(b, id, canWrite, owner) ==
    [b EXCEPT !._lastEditableSession = FALSE,
              !._markToDestroy = FALSE,
              !._stop = FALSE,
              !.kitSessions = IF b._childProcess = "alive" THEN @ \cup {id} ELSE @,
              !._sessions = @ \cup {id},
              !.readOnly = IF canWrite THEN @ \ {id} ELSE @ \cup {id},
              !.documentOwner = IF owner THEN @ \cup {id} ELSE @ \ {id}]

\* A handler that marks the broker to destroy after every failed addSession.
addSessionFailed_alwaysMarks(b) == [b EXCEPT !._markToDestroy = TRUE]

\* DocumentBroker::addSession: the catch handler.
addSessionFailed(b) ==
    [b EXCEPT !._markToDestroy = IF b._sessions = {} THEN TRUE ELSE @]

\* An addSession that announces the session to the kit before it loads.
addSession_sessionBeforeLoad(b, id, ledger, uri, resp, canWrite, owner, diskMTime, modifiedTime) ==
    LET b0 == [b EXCEPT !.kitSessions = @ \cup {id}]
        b1 == load(b0, ledger, uri, resp, diskMTime, modifiedTime)
    IN  IF loadResult(b, ledger, uri, resp) = "true"
        THEN addSessionInternal(b1, id, canWrite, owner)
        ELSE addSessionFailed(b1)

\* An addSession that attaches the session first and leaves it in the map
\* when the load fails.
addSession_keepsFailedSession(b, id, ledger, uri, resp, canWrite, owner, diskMTime, modifiedTime) ==
    LET b1 == load(b, ledger, uri, resp, diskMTime, modifiedTime)
    IN  IF loadResult(b, ledger, uri, resp) = "true"
        THEN addSessionInternal(b1, id, canWrite, owner)
        ELSE addSessionFailed([b1 EXCEPT !._sessions = @ \cup {id}])

\* DocumentBroker::addSession: load, then add; a failed load is rethrown
\* after marking an empty broker to destroy.
addSession(b, id, ledger, uri, resp, canWrite, owner, diskMTime, modifiedTime) ==
    LET b1 == load(b, ledger, uri, resp, diskMTime, modifiedTime)
    IN  IF loadResult(b, ledger, uri, resp) = "true"
        THEN addSessionInternal(b1, id, canWrite, owner)
        ELSE addSessionFailed(b1)

\* What addSession reports to its caller.
addSessionResult(b, ledger, uri, resp) ==
    IF b._markToDestroy THEN "markedToDestroy"
    ELSE IF loadRefusesToken(b, ledger, uri) THEN "tokenUsed"
    ELSE IF loadResult(b, ledger, uri, resp) = "true" THEN "ok"
    ELSE IF loadResult(b, ledger, uri, resp) = "false" THEN "loadFalse"
    ELSE "loadThrow"

\* addSessionInternal: the frames sent to the sessions of the map when the
\* load runs out of storage space.
addSessionSent(b, ledger, uri, resp) ==
    IF /\ ~b._markToDestroy /\ ~loadRefusesToken(b, ledger, uri)
       /\ resp = "throwSpaceLow" /\ loadDownloads(b)
    THEN {<<s, InternalDiskFull>> : s \in b._sessions}
    ELSE {}

\* ------------------------------------------------------ saving to storage
\* A saveToStorageInternal that looks for the session before it looks at
\* the kit's result.
saveToStorageInternal_sessionFirst(b, sessionId, success, result, newFileModifiedTime, storageSaveResult, modifiedTime, t) ==
    IF sessionId \notin b._sessions
    THEN b
    ELSE IF ~success /\ result = "unmodified"
    THEN [b EXCEPT !._lastSaveTime = t]
    ELSE IF ~b._lastEditableSession /\ newFileModifiedTime = b._lastFileModifiedTime
    THEN [b EXCEPT !._lastSaveTime = t]
    ELSE IF storageSaveResult = "OK"
    THEN [b EXCEPT !._isModified = FALSE,
                   !.unsavedChanges = FALSE,
                   !._lastFileModifiedTime = newFileModifiedTime,
                   !._lastSaveTime = t,
                   !._documentLastModifiedTime = modifiedTime]
    ELSE IF storageSaveResult = "DISKFULL"
    THEN [b EXCEPT !.readOnly = @ \cup b._sessions]
    ELSE b

\* DocumentBroker::saveToStorageInternal.  newFileModifiedTime is the
\* timestamp of the jailed file, storageSaveResult what the upload returns,
\* modifiedTime the FileInfo::_modifiedTime of the storage after the upload.
saveToStorageInternal(b, sessionId, success, result, newFileModifiedTime, storageSaveResult, modifiedTime, t) ==
    IF ~success /\ result = "unmodified"
    THEN [b EXCEPT !._lastSaveTime = t]
    ELSE IF sessionId \notin b._sessions
    THEN b
    ELSE IF ~b._lastEditableSession /\ newFileModifiedTime = b._lastFileModifiedTime
    THEN [b EXCEPT !._lastSaveTime = t]
    ELSE IF storageSaveResult = "OK"
    THEN [b EXCEPT !._isModified = FALSE,
                   !.unsavedChanges = FALSE,
                   !._lastFileModifiedTime = newFileModifiedTime,
                   !._lastSaveTime = t,
                   !._documentLastModifiedTime = modifiedTime]
    ELSE IF storageSaveResult = "DISKFULL"
    THEN [b EXCEPT !.readOnly = @ \cup b._sessions]
    ELSE b

\* DocumentBroker::saveToStorageInternal: true iff the upload is attempted.
saveToStorageUploads(b, sessionId, success, result, newFileModifiedTime) ==
    /\ ~(~success /\ result = "unmodified")
    /\ sessionId \in b._sessions
    /\ ~(~b._lastEditableSession /\ newFileModifiedTime = b._lastFileModifiedTime)

\* DocumentBroker::saveToStorageInternal: how it ends: the kit did not
\* save ("unmodified"), the upload is skipped as unnecessary, or the upload
\* is attempted and ends as the storage says.
saveToStorageOutcome(uploads, kitResult, storageSaveResult) ==
    IF uploads THEN storageSaveResult
    ELSE IF kitResult = <<FALSE, "unmodified">> THEN "unmodified"
    ELSE "skipped"

\* DocumentBroker::saveToStorageInternal: the return value.
saveToStorageResult(b, sessionId, success, result, newFileModifiedTime, storageSaveResult) ==
    IF ~success /\ result = "unmodified" THEN TRUE
    ELSE IF sessionId \notin b._sessions THEN FALSE
    ELSE IF ~b._lastEditableSession /\ newFileModifiedTime = b._lastFileModifiedTime THEN TRUE
    ELSE storageSaveResult = "OK"

\* The frames saveToStorageInternal sends to an upload's losers.
SaveDiskFull == "error: cmd=storage kind=savediskfull"
SaveUnauthorized == "error: cmd=storage kind=saveunauthorized"
SaveFailed == "error: cmd=storage kind=savefailed"

\* A disk-full upload that is reported to the saving session only.
saveToStorageSent_diskFullToOriginator(b, sessionId, uploads, storageSaveResult) ==
    IF ~uploads \/ storageSaveResult = "OK" THEN {}
    ELSE IF storageSaveResult = "DISKFULL" THEN {<<sessionId, SaveDiskFull>>}
    ELSE IF storageSaveResult = "UNAUTHORIZED" THEN {<<sessionId, SaveUnauthorized>>}
    ELSE {<<sessionId, SaveFailed>>}

\* A failed upload that is reported to every session ("TODO: Should we
\* notify all clients?").
saveToStorageSent_failedToAll(b, sessionId, uploads, storageSaveResult) ==
    IF ~uploads \/ storageSaveResult = "OK" THEN {}
    ELSE IF storageSaveResult = "DISKFULL" THEN {<<s, SaveDiskFull>> : s \in b._sessions}
    ELSE IF storageSaveResult = "UNAUTHORIZED" THEN {<<sessionId, SaveUnauthorized>>}
    ELSE {<<s, SaveFailed>> : s \in b._sessions}

\* DocumentBroker::saveToStorageInternal: the text frames it sends to the
\* sessions, as <<session, frame>>.  uploads tells whether the upload is
\* attempted (saveToStorageUploads).
saveToStorageSent(b, sessionId, uploads, storageSaveResult) ==
    IF ~uploads \/ storageSaveResult = "OK" THEN {}
    ELSE IF storageSaveResult = "DISKFULL" THEN {<<s, SaveDiskFull>> : s \in b._sessions}
    ELSE IF storageSaveResult = "UNAUTHORIZED" THEN {<<sessionId, SaveUnauthorized>>}
    ELSE {<<sessionId, SaveFailed>>}

\* saveToStorage removing disconnected sessions only.
saveToStorageRemoves_closeFrameOnly(b, sessionId, isCloseFrame) ==
    sessionId \in b._sessions /\ isCloseFrame

\* saveToStorage: "If marked to destroy, or session is disconnected, remove."
\* isCloseFrame is what ClientSession::isCloseFrame answers for the session.
saveToStorageRemoves(b, sessionId, isCloseFrame) ==
    b._markToDestroy \/ (sessionId \in b._sessions /\ isCloseFrame)

\* A saveToStorage that stops a broker that is marked to destroy only.
saveToStorageStops_markedOnly(b) == b._markToDestroy

\* saveToStorage: "If marked to destroy, then this was the last session."
saveToStorageStops(b) ==
    b._markToDestroy \/ b._sessions = {}

\* DocumentBroker::saveToStorage
saveToStorage(b, sessionId, success, result, newFileModifiedTime, storageSaveResult, modifiedTime, isCloseFrame, t) ==
    LET b1 == saveToStorageInternal(b, sessionId, success, result, newFileModifiedTime,
                                    storageSaveResult, modifiedTime, t)
        b2 == IF saveToStorageRemoves(b1, sessionId, isCloseFrame)
              THEN removeSessionInternal(b1, sessionId)
              ELSE b1
    IN  IF saveToStorageStops(b2) THEN [b2 EXCEPT !._stop = TRUE] ELSE b2

\* DocumentBroker::setLoaded
setLoaded(b) == [b EXCEPT !._isLoaded = TRUE]

\* A setModified that forgets the tile cache.
setModified_flagOnly(b, value) == [b EXCEPT !._isModified = value]

\* DocumentBroker::setModified
setModified(b, value) == [b EXCEPT !.unsavedChanges = value, !._isModified = value]

\* DocumentBroker::updateLastActivityTime
updateLastActivityTime(b, t) == [b EXCEPT !._lastActivityTime = t]

\* DocumentBroker::stop
stop(b) == [b EXCEPT !._stop = TRUE]

\* ----------------------------------------------------------------- tiles
\* TileCache::subscribeToTileRendering
subscribeToTileRendering(b, tile, subscribers) ==
    [b EXCEPT !.tilesBeingRendered[tile] = @ \cup subscribers]

\* DocumentBroker::handleTileRequest: the version is taken, then the tile is
\* served from the cache or subscribed and sent to the kit to render.
handleTileRequest(b, tile, session, broadcast) ==
    LET b1 == [b EXCEPT !._tileVersion = @ + 1]
    IN  IF tile \in b1.cachedTiles
        THEN b1
        ELSE LET b2 == subscribeToTileRendering(
                           b1, tile, IF broadcast THEN b1._sessions ELSE {session})
             IN  [b2 EXCEPT !.kitTiles[tile] = @ + 1]

\* DocumentBroker::handleTileRequest: the frames it sends to the sessions: a
\* cached tile goes to the session that asked for it.
handleTileRequestSent(b, tile, session) ==
    IF tile \in b.cachedTiles THEN {<<session, "tile:">>} ELSE {}

\* A handleTileRequest that sends the tile with the version it had before
\* the request.
handleTileRequestKitFrames_staleVersion(b, tile) ==
    IF tile \in b.cachedTiles
    THEN <<>>
    ELSE << <<[tile |-> tile, ver |-> b._tileVersion]>> >>

\* DocumentBroker::handleTileRequest: the frames it sends to the kit, each
\* the tiles it asks for with their versions.
handleTileRequestKitFrames(b, tile) ==
    IF tile \in b.cachedTiles
    THEN <<>>
    ELSE << <<[tile |-> tile, ver |-> b._tileVersion + 1]>> >>

RECURSIVE handleTileCombinedTiles(_, _, _, _, _)
\* handleTileCombinedRequest, "Satisfy as many tiles from the cache.": the
\* loop over the tiles of the request, in their order.  answered are the
\* tiles sent to the session, tiles the ones that need rendering.
handleTileCombinedTiles(b, todo, session, answered, tiles) ==
    IF todo = {}
    THEN [b |-> b, answered |-> answered, tiles |-> tiles]
    ELSE LET tile == Min(todo)
         IN  IF tile \in b.cachedTiles
             THEN handleTileCombinedTiles(b, todo \ {tile}, session,
                                          answered \cup {tile}, tiles)
             ELSE LET b1 == [b EXCEPT !._tileVersion = @ + 1]
                      b2 == subscribeToTileRendering(b1, tile, {session})
                  IN  handleTileCombinedTiles(
                          b2, todo \ {tile}, session, answered,
                          Append(tiles, [tile |-> tile, ver |-> b1._tileVersion]))

RECURSIVE kitAsked(_, _)
\* The kit has been sent a request for every tile of tiles.
kitAsked(b, tiles) ==
    IF tiles = <<>>
    THEN b
    ELSE kitAsked([b EXCEPT !.kitTiles[Head(tiles).tile] = @ + 1], Tail(tiles))

\* A handleTileCombinedRequest that forwards the request as it came.
handleTileCombinedRequest_forwardsAll(b, tileCombined, session) ==
    LET r == handleTileCombinedTiles(b, tileCombined, session, {}, <<>>)
        all == [i \in 1..Cardinality(tileCombined) |->
                   [tile |-> CHOOSE t \in tileCombined :
                                 Cardinality({u \in tileCombined : u < t}) = i - 1,
                    ver |-> r.b._tileVersion]]
    IN  [ b |-> kitAsked(r.b, all), answered |-> r.answered, kitFrames |-> <<all>> ]

\* DocumentBroker::handleTileCombinedRequest: the broker it leaves, the
\* tiles it sends to the session and the frames it sends to the kit: the
\* residual tilecombine, if a tile needs rendering.
handleTileCombinedRequest(b, tileCombined, session) ==
    LET r == handleTileCombinedTiles(b, tileCombined, session, {}, <<>>)
    IN  [ b |-> kitAsked(r.b, r.tiles),
          answered |-> r.answered,
          kitFrames |-> IF r.tiles = <<>> THEN <<>> ELSE <<r.tiles>> ]

\* TileCache::saveTileAndNotify: the bytes are stored and every subscriber is
\* sent the tile; the subscriber list is cleared.
saveTileAndNotify(b, tile) ==
    [b EXCEPT !.cachedTiles = @ \cup {tile},
              !.tilesBeingRendered[tile] = {}]

\* DocumentBroker::handleTileResponse, for a well-formed "tile:" frame.
handleTileResponse(b, tile) ==
    [saveTileAndNotify(b, tile) EXCEPT !.kitTiles[tile] = @ - 1]

\* DocumentBroker::invalidateTiles
invalidateTiles(b, tiles) == [b EXCEPT !.cachedTiles = @ \ tiles]

\* ---------------------------------------------------- messages of the kit
\* What TileDesc::parse makes of a first line that is no tile descriptor.
Unparsable == 1 - 1

\* A token "name=value" of a message, as <<name, value>>.
KitTokens == {<<"cmd", "storage">>, <<"cmd", "">>, <<"kind", "savefailed">>, <<"kind", "">>}

\* The frames of the kit that carry no forward token: the first token, what
\* TileDesc::parse or TileCombined::parse makes of the first line (a tile),
\* the number of bytes after the first line, and the tokens after the first.
KitFrames ==
    [ command : {"tile:", "tilecombine:"}, descriptor : TileIds \cup {Unparsable},
      bytes : 0..1, args : {<<>>} ]
    \cup [ command : {"errortoall:"}, descriptor : {Unparsable}, bytes : {0},
           args : {<<>>} \cup {<<a>> : a \in KitTokens} \cup (KitTokens \X KitTokens) ]
    \cup [ command : {"procmemstats:", "invalidcursor:"}, descriptor : {Unparsable},
           bytes : {0}, args : {<<>>} ]

\* LOOLProtocol::getTokenString(token, name, value): the value, "" if the
\* token has another name.
getTokenString(token, name) == IF token[1] = name THEN token[2] ELSE ""

\* handleInput, "errortoall:": true iff the message has three tokens and
\* names a cmd and a kind.
errorToAllChecks(frame) ==
    /\ Len(frame.args) = 2
    /\ getTokenString(frame.args[1], "cmd") # ""
    /\ getTokenString(frame.args[2], "kind") # ""

\* handleTileResponse and handleTileCombinedResponse: true iff the tile is
\* saved: the payload has bytes after its first line and the line parses.
tileResponseSaves(frame) ==
    frame.bytes > 0 /\ frame.descriptor # Unparsable

\* A handler of tile responses that saves a tile that came without bytes.
handleInput_savesEmptyTile(b, frame) ==
    IF frame.command \in {"tile:", "tilecombine:"} /\ frame.descriptor # Unparsable
    THEN [saveTileAndNotify(b, frame.descriptor) EXCEPT
             !.kitTiles[frame.descriptor] = IF @ > 0 THEN @ - 1 ELSE @]
    ELSE b

\* DocumentBroker::handleInput for a message without forward token: the
\* broker it leaves.  A tile the kit was not asked for is saved like any.
handleInput(b, frame) ==
    IF frame.command \in {"tile:", "tilecombine:"} /\ tileResponseSaves(frame)
    THEN [saveTileAndNotify(b, frame.descriptor) EXCEPT
             !.kitTiles[frame.descriptor] = IF @ > 0 THEN @ - 1 ELSE @]
    ELSE b

\* DocumentBroker::handleInput: the frames it sends to the sessions: the
\* tile to its subscribers, the error to every session.
handleInputSent(b, frame) ==
    IF frame.command \in {"tile:", "tilecombine:"} /\ tileResponseSaves(frame)
    THEN {<<s, "tile:">> : s \in b.tilesBeingRendered[frame.descriptor]}
    ELSE IF frame.command = "errortoall:" /\ errorToAllChecks(frame)
    THEN {<<s, "error:">> : s \in b._sessions}
    ELSE {}

\* DocumentBroker::handleInput: the return value.
handleInputResult(frame) ==
    IF frame.command \in {"tile:", "tilecombine:", "procmemstats:"} THEN "true"
    ELSE IF frame.command = "errortoall:" /\ errorToAllChecks(frame) THEN "true"
    ELSE "false"
\* The forward token "client-all".
AllSessions == MaxSessions + 1

\* What ClientSession::handleKitToClientMessage of a session does to the
\* session map: the sessions it removes (a save result removes its session).
Removals == [SessionIds -> SUBSET SessionIds]

RECURSIVE removeSessionsInternal(_, _)
\* removeSessionInternal for every session of ids.
removeSessionsInternal(b, ids) ==
    IF ids = {}
    THEN b
    ELSE removeSessionsInternal(removeSessionInternal(b, Min(ids)), ids \ {Min(ids)})

RECURSIVE forwardToSessions_liveMap(_, _, _, _)
\* A broadcast that leaves out the sessions an earlier delivery has removed.
forwardToSessions_liveMap(b, sessions, removes, delivered) ==
    IF sessions = {}
    THEN [b |-> b, delivered |-> delivered]
    ELSE LET id == Min(sessions)
         IN  IF id \in b._sessions
             THEN forwardToSessions_liveMap(removeSessionsInternal(b, removes[id]),
                                            sessions \ {id}, removes, Append(delivered, id))
             ELSE forwardToSessions_liveMap(b, sessions \ {id}, removes, delivered)

RECURSIVE forwardToSessions(_, _, _, _)
\* forwardToClient, "Broadcast to all.": handleKitToClientMessage of every
\* session of the copy of the map, in map order.  delivered lists the
\* sessions the message was handed to.
forwardToSessions(b, sessions, removes, delivered) ==
    IF sessions = {}
    THEN [b |-> b, delivered |-> delivered]
    ELSE LET id == Min(sessions)
         IN  forwardToSessions(removeSessionsInternal(b, removes[id]),
                               sessions \ {id}, removes, Append(delivered, id))

\* DocumentBroker::forwardToClient for a message with the forward token
\* "client-<sid>".
forwardToClient(b, sid, removes) ==
    IF sid = AllSessions
    THEN forwardToSessions(b, b._sessions, removes, <<>>)
    ELSE IF sid \in b._sessions
    THEN [b |-> removeSessionsInternal(b, removes[sid]), delivered |-> <<sid>>]
    ELSE [b |-> b, delivered |-> <<>>]

\* -------------------------------------------------------------- teardown
RECURSIVE shutdownSessions(_, _, _)
\* DocumentBroker::shutdownClients: removeSession(id, true) for every session
\* of a copy of the map, in map order.
shutdownSessions(b, todo, t) ==
    IF todo = {}
    THEN b
    ELSE LET id == Min(todo)
         IN  shutdownSessions(removeSession(b, id, TRUE, t), todo \ {id}, t)

\* A shutdownClients that closes the sessions and leaves them in the map.
shutdownClients_closesOnly(b, t) == b

\* DocumentBroker::shutdownClients: the broker it leaves.
shutdownClients(b, t) == shutdownSessions(b, b._sessions, t)

\* The close frame of session->shutdown(ENDPOINT_GOING_AWAY, "terminated").
GoingAwayTerminated == "close: ENDPOINT_GOING_AWAY terminated"

\* DocumentBroker::childSocketTerminated: the close frames it sends.
childSocketTerminatedSent(b) == {<<s, GoingAwayTerminated>> : s \in b._sessions}

\* The kit's socket is gone: what the kit had yet to answer stays unanswered.
kitGone(b, state) ==
    [b EXCEPT !._childProcess = state,
              !.kitSessions = {},
              !.kitSaves = <<>>,
              !.kitTiles = [t2 \in CombinedTileIds |-> 0]]

\* DocumentBroker::terminateChild
terminateChild(b, rude, t) ==
    LET b1 == IF rude THEN b ELSE shutdownClients(b, t)
        b2 == IF b1._childProcess = "null" THEN b1 ELSE kitGone(b1, "closed")
    IN  [b2 EXCEPT !._stop = TRUE]

\* DocumentBroker::childSocketTerminated
childSocketTerminated(b, t) == shutdownClients(b, t)

\* ------------------------------------------------------------ pollThread
\* Timer checks that let a broker linger when it is marked to destroy but
\* was never loaded.
pollThreadChecks_loadedOnly(b, t, last30, shutdownRequested) ==
    LET tick == /\ ~shutdownRequested
                /\ AutoSaveEnabled /\ ~b._stop
                /\ t - last30 >= savingtime
        b1 == IF shutdownRequested THEN [b EXCEPT !._stop = TRUE]
              ELSE IF tick THEN autoSave(b, TRUE, NoSession, t)
              ELSE b
        idle == getIdleTimeSecs(b1, t) >= IdleDocTimeoutSecs
        dead == b1._isLoaded /\ (b1._sessions = {} \/ idle)
    IN  [b |-> IF dead THEN [b1 EXCEPT !._stop = TRUE] ELSE b1,
         last30 |-> IF tick THEN t ELSE last30]

\* pollThread(): the timer checks themselves, after the save-in-progress test.
pollThreadChecks(b, t, last30, shutdownRequested) ==
    LET tick == /\ ~shutdownRequested
                /\ AutoSaveEnabled /\ ~b._stop
                /\ t - last30 >= savingtime
        b1 == IF shutdownRequested THEN [b EXCEPT !._stop = TRUE]
              ELSE IF tick THEN autoSave(b, TRUE, NoSession, t)
              ELSE b
        idle == getIdleTimeSecs(b1, t) >= IdleDocTimeoutSecs
        dead == (b1._isLoaded \/ b1._markToDestroy) /\ (b1._sessions = {} \/ idle)
    IN  [b |-> IF dead THEN [b1 EXCEPT !._stop = TRUE] ELSE b1,
         last30 |-> IF tick THEN t ELSE last30]

\* A main loop that runs its timer checks whether or not a save is in progress.
pollThreadTimers_ungated(b, t, last30, shutdownRequested) ==
    pollThreadChecks(b, t, last30, shutdownRequested)

\* pollThread(): what one turn of the main loop does after poll() returns.
\* The result is the broker and last30SecCheckTime.
pollThreadTimers(b, t, last30, shutdownRequested) ==
    IF SaveInProgress(b, t)
    THEN [b |-> b, last30 |-> last30]
    ELSE pollThreadChecks(b, t, last30, shutdownRequested)

\* A main loop whose condition does not look at _stop.
continueMainLoop_ignoresStop(b, terminationFlag) == ~terminationFlag

\* pollThread(): the condition of the main loop.
continueMainLoop(b, terminationFlag) == ~b._stop /\ ~terminationFlag

\* pollThread(), "Flush socket data first.": what the flush loop passes to
\* poll() after it has read elapsedMs.
flushPollTimeout(elapsedMs) ==
    Min({flushTimeoutMs - elapsedMs, POLL_TIMEOUT_MS \div 5})

RECURSIVE flushSockets_untilEmpty(_, _)
\* A flush loop that polls for as long as the poll has sockets.
flushSockets_untilEmpty(elapsedMs, socketPolls) ==
    IF socketPolls = 0
    THEN [polls |-> 0, elapsedMs |-> elapsedMs]
    ELSE LET waited == IF flushPollTimeout(elapsedMs) > 1 THEN flushPollTimeout(elapsedMs) ELSE 1
             rest == flushSockets_untilEmpty(elapsedMs + waited, socketPolls - 1)
         IN  [polls |-> rest.polls + 1, elapsedMs |-> rest.elapsedMs]

RECURSIVE flushSockets(_, _)
\* pollThread(), the flush loop: the poll has sockets for socketPolls turns;
\* a turn that reads an elapsed time above flushTimeoutMs breaks.  A poll
\* lasts as long as its timeout, and the clock reading after it is later
\* than the one before it.  The result is the number of polls and the last
\* elapsed time read.
flushSockets(elapsedMs, socketPolls) ==
    IF socketPolls = 0 \/ elapsedMs > flushTimeoutMs
    THEN [polls |-> 0, elapsedMs |-> elapsedMs]
    ELSE LET waited == IF flushPollTimeout(elapsedMs) > 1 THEN flushPollTimeout(elapsedMs) ELSE 1
             rest == flushSockets(elapsedMs + waited, socketPolls - 1)
         IN  [polls |-> rest.polls + 1, elapsedMs |-> rest.elapsedMs]

\* A thread that terminates the child before it flushes the sockets.
pollThreadExitSteps_terminatesFirst(b, socketPolls, tileCachePersistent) ==
    <<"terminateChild">>
        \o [i \in 1..flushSockets(0, socketPolls).polls |-> "poll"]
        \o <<"stop", "removeSockets", "doHousekeeping">>
        \o (IF b._storage = "loaded" /\ ~tileCachePersistent
            THEN <<"completeCleanup">> ELSE <<>>)

\* pollThread(), after the main loop: the calls it makes, in order.  The
\* tile cache exists once the document is loaded from its storage.
pollThreadExitSteps(b, socketPolls, tileCachePersistent) ==
    [i \in 1..flushSockets(0, socketPolls).polls |-> "poll"]
        \o <<"terminateChild", "stop", "removeSockets", "doHousekeeping">>
        \o (IF b._storage = "loaded" /\ ~tileCachePersistent
            THEN <<"completeCleanup">> ELSE <<>>)

\* What a call of the thread's exit does to the broker: poll() of the flush
\* loop writes what the sockets have buffered, TileCache::completeCleanup
\* removes the document's tiles.
pollThreadExitStep(b, step, t) ==
    IF step = "terminateChild" THEN terminateChild(b, FALSE, t)
    ELSE IF step = "completeCleanup" THEN [b EXCEPT !.cachedTiles = {}]
    ELSE b

RECURSIVE pollThreadExitFrom(_, _, _)
\* The calls of steps, made one after the other.
pollThreadExitFrom(b, steps, t) ==
    IF steps = <<>>
    THEN b
    ELSE pollThreadExitFrom(pollThreadExitStep(b, Head(steps), t), Tail(steps), t)

\* pollThread(), after the main loop: the broker it leaves.
pollThreadExit(b, socketPolls, tileCachePersistent, t) ==
    pollThreadExitFrom(b, pollThreadExitSteps(b, socketPolls, tileCachePersistent), t)

\* pollThread(): how long a kit is waited for.
ChildSpawnTimeout == 5 * CommandTimeout

\* -------------------------------------------------------- document keys
\* Strings are sequences of characters.  The characters of a decoded path:
\* an unreserved one, the separator, and two that Poco::URI::encode escapes.
PathChars == {"a", "/", " ", "%"}

RECURSIVE PathsOfLen(_)
\* The strings of n characters.
PathsOfLen(n) ==
    IF n = 0 THEN {<<>>}
    ELSE {Append(p, c) : p \in PathsOfLen(n - 1), c \in PathChars}

\* Poco::URI::getPath of a sanitized public URI: decoded, and not empty.
Paths == {<<"/">> \o p : p \in UNION {PathsOfLen(n) : n \in 0..MaxPathLen}}

\* The hosts a public URI can name: a storage server, an alias of it, and
\* an unrelated storage server.
Hosts == {"storage", "alias", "elsewhere"}

\* The query of a public URI.
Queries == {"", "access_token=t", "rdid=1"}

\* Poco::URI, as far as getDocKey reads it.
PublicUris == [host : Hosts, path : Paths, query : Queries]

\* Poco::URI::encode, one character: unreserved characters and "/" are
\* kept, a blank and "%" are written as "%" and two hexadecimal digits.
encodeChar(c) ==
    IF c = " " THEN <<"%", "2", "0">>
    ELSE IF c = "%" THEN <<"%", "2", "5">>
    ELSE <<c>>

RECURSIVE encode(_)
\* Poco::URI::encode(str, "", encodedStr)
encode(str) ==
    IF str = <<>> THEN <<>> ELSE encodeChar(Head(str)) \o encode(Tail(str))

\* DocumentBroker::getDocKey: the encoded path.  (For the key "/" the query
\* parameters are walked up to "rdid"; nothing is done with it.)
getDocKey(uri) == encode(uri.path)

\* --------------------------------------------------------- the registry
\* The request handlers of the process, and the ids of its brokers.
Callers == 1..MaxCallers
NoCaller == 1 - 1
DocBrokerIds == 1..MaxDocBrokers
NoBroker == 1 - 1
NoUri == [host |-> "", path |-> <<>>, query |-> ""]

\* A request handler: where it is (idle, keyed, locked, absent, present,
\* marked, created, waiting, done, failed), the public URI it serves, the
\* document key of it, the broker it was handed, and how often it has waited.
NewRequest ==
    [ pc |-> "idle", uri |-> NoUri, docKey |-> <<>>, docBroker |-> NoBroker, retries |-> 0 ]

\* The process at start: no broker is registered, the registry's mutex is
\* free and every handler is idle.
NewWsd ==
    [ DocBrokers      |-> {},       \* the registry: [docKey, id, markToDestroy]
      DocBrokersMutex |-> NoCaller, \* who holds the registry's mutex
      nextDocBrokerId |-> 1,        \* DocumentBroker::DocBrokerId
      requests        |-> [c \in Callers |-> NewRequest] ]

\* A request arrives: the handler computes the document key of its URI.
handleRequest(w, c, uri) ==
    [w EXCEPT !.requests[c] =
        [NewRequest EXCEPT !.pc = "keyed", !.uri = uri, !.docKey = getDocKey(uri)]]

\* A registry whose mutex is never found taken.
tryLock_unguarded(w) == TRUE

\* The registry-wide mutex: true iff it is free.
tryLock(w) == w.DocBrokersMutex = NoCaller

\* find-or-create: the mutex is taken.
lockDocBrokers(w, c) ==
    [w EXCEPT !.DocBrokersMutex = c, !.requests[c].pc = "locked"]

\* find-or-create: the brokers registered under a key.
lookupDocBrokers(w, docKey) == {b \in w.DocBrokers : b.docKey = docKey}

\* find-or-create: the lookup: the key is absent, or present with a broker
\* that is marked to destroy, or present with a broker that is handed out.
findDocBroker(w, c) ==
    LET found == lookupDocBrokers(w, w.requests[c].docKey)
    IN  IF found = {}
        THEN [w EXCEPT !.requests[c].pc = "absent"]
        ELSE LET b == CHOOSE b \in found : TRUE
             IN  IF b.markToDestroy
                 THEN [w EXCEPT !.requests[c].pc = "marked"]
                 ELSE [w EXCEPT !.requests[c].pc = "present",
                                !.requests[c].docBroker = b.id]

\* find-or-create: a new broker is constructed, its thread started, and it is
\* recorded under its key.
createDocBroker(w, c) ==
    [w EXCEPT !.DocBrokers = @ \cup {[docKey |-> w.requests[c].docKey,
                                      id |-> w.nextDocBrokerId,
                                      markToDestroy |-> FALSE]},
              !.nextDocBrokerId = @ + 1,
              !.requests[c].pc = "created",
              !.requests[c].docBroker = w.nextDocBrokerId]

\* find-or-create: the mutex is released: the handle is returned, or the
\* caller goes to wait for the removal of the marked broker, or gives up.
unlockDocBrokers(w, c) ==
    LET r == w.requests[c]
    IN  [w EXCEPT !.DocBrokersMutex = NoCaller,
                  !.requests[c].pc =
                      IF r.pc \in {"present", "created"} THEN "done"
                      ELSE IF r.retries < MaxFindRetries THEN "waiting"
                      ELSE "failed"]

\* find-or-create: the wait is over: the caller tries again.
retryFindDocBroker(w, c) ==
    [w EXCEPT !.requests[c].pc = "keyed", !.requests[c].retries = @ + 1]

\* A broker's last session leaves: the broker is marked to destroy.
markToDestroy(w, id) ==
    [w EXCEPT !.DocBrokers =
        {IF b.id = id THEN [b EXCEPT !.markToDestroy = TRUE] ELSE b : b \in @}]

\* remove(key): a broker's last act before its thread exits.
removeDocBroker(w, id) ==
    [w EXCEPT !.DocBrokers = {b \in @ : b.id # id}]

\* ------------------------------------------------------------- the system
\* History: the operation that has just run, how it ended, the thread that
\* ran it, the session whose removal waited for it, the error and close
\* frames it sent to the sessions, as <<session, frame>>, for a save
\* result, whether its session had received its close frame, and, for the
\* exit of the thread, the calls it made.
OpSave(name, res, thread, departing, sent, closing) ==
    [ op |-> name, res |-> res, thread |-> thread, departing |-> departing,
      sent |-> sent, closing |-> closing, steps |-> <<>> ]

\* The exit of the thread, with the calls it made.
OpSteps(name, res, thread, departing, steps) ==
    [OpSave(name, res, thread, departing, {}, FALSE) EXCEPT !.steps = steps]

\* An operation that is not the handling of a save result.
OpSent(name, res, thread, departing, sent) ==
    OpSave(name, res, thread, departing, sent, FALSE)

\* An operation that sends nothing to the sessions.
Op(name, res, thread, departing) == OpSent(name, res, thread, departing, {})

\* The broker was constructed a clock step ago and its thread is started.
\* The steady clock's epoch lies well before the construction.
Init ==
    /\ broker = NewBroker(0 - ClockStep, 0 - ClockStep - IdleDocTimeoutSecs)
    /\ pc = "spawn"
    /\ now = 0
    /\ last30SecCheckTime = 0
    /\ nextSessionId = 1
    /\ tokens = {}
    /\ wsd = NewWsd
    /\ lastOp = Op("construct", "ok", "other", NoSession)

\* The steady clock advances.  (Before the main loop the clock only matters
\* to the wait for a kit, after it to nothing.)
Tick ==
    /\ pc = "loop"
    /\ now < MaxTicks * ClockStep
    /\ now' = now + ClockStep
    /\ lastOp' = Op("tick", "ok", "other", NoSession)
    /\ UNCHANGED <<broker, pc, last30SecCheckTime, nextSessionId, tokens, wsd>>

\* pollThread(): no kit yet and no reason to give up: the thread sleeps
\* before it asks again (the thread was started at time 0).
SpawnWait ==
    /\ pc = "spawn"
    /\ now <= ChildSpawnTimeout
    /\ ~broker._stop
    /\ now' = now + ClockStep
    /\ lastOp' = Op("getNewChild", "retry", "loop", NoSession)
    /\ UNCHANGED <<broker, pc, last30SecCheckTime, nextSessionId, tokens, wsd>>

\* pollThread(), "Let the client know we can't serve now.": the frames sent
\* when no kit was obtained (the sending code is compiled out).
getNewChildFailedSent == {}

\* pollThread(): "Request a kit process for this doc."  got tells whether
\* getNewChild_Blocks() returned a child; the two flags are the process-wide
\* TerminationFlag and ShutdownRequestFlag as the thread reads them (a thread
\* that reads either as true leaves its loop and never reads it again).
GetNewChild(got, terminationFlag, shutdownRequestFlag) ==
    /\ pc = "spawn"
    /\ IF got
       THEN /\ broker' = [broker EXCEPT !._childProcess = "alive"]
            /\ pc' = IF continueMainLoop(broker, terminationFlag) THEN "loop" ELSE "flush"
            /\ last30SecCheckTime' = now
            /\ lastOp' = Op("getNewChild", "ok", "loop", NoSession)
       ELSE /\ \/ now > ChildSpawnTimeout
               \/ broker._stop \/ terminationFlag \/ shutdownRequestFlag
            /\ broker' = [broker EXCEPT !._stop = TRUE]
            /\ pc' = "done"
            /\ lastOp' = OpSent("getNewChild",
                                IF now > ChildSpawnTimeout THEN "timeout" ELSE "failed",
                                "loop", NoSession, getNewChildFailedSent)
            /\ UNCHANGED last30SecCheckTime
    /\ UNCHANGED <<now, nextSessionId, tokens, wsd>>

\* One turn of the main loop: the timer checks after poll(), then the loop
\* condition.
MainLoopIteration(shutdownRequestFlag, terminationFlag) ==
    /\ pc = "loop"
    /\ LET r == pollThreadTimers(broker, now, last30SecCheckTime, shutdownRequestFlag)
       IN  /\ Len(r.b.kitSaves) <= MaxPendingSaves
           /\ broker' = r.b
           /\ last30SecCheckTime' = r.last30
           /\ pc' = IF continueMainLoop(r.b, terminationFlag) THEN "loop" ELSE "flush"
    /\ lastOp' = Op("pollThread", IF SaveInProgress(broker, now) THEN "saving" ELSE "checked",
                    "loop", NoSession)
    /\ UNCHANGED <<now, nextSessionId, tokens, wsd>>

\* pollThread(), after the main loop: the sockets are flushed,
\* terminateChild(closeReason, false) is called, the poll is stopped and the
\* tiles are removed if the tile cache is not persistent.  socketPolls is
\* the number of turns of the flush loop for which the poll has sockets.
FinishPolling(socketPolls, tileCachePersistent) ==
    /\ pc = "flush"
    /\ broker' = pollThreadExit(broker, socketPolls, tileCachePersistent, now)
    /\ pc' = "done"
    /\ lastOp' = OpSteps("terminateChild", "ok", "loop", NoSession,
                         pollThreadExitSteps(broker, socketPolls, tileCachePersistent))
    /\ UNCHANGED <<now, last30SecCheckTime, nextSessionId, tokens, wsd>>

\* The exit of a thread whose poll has no socket left, with a persistent
\* tile cache ("tile_cache_persistent", true by default).
TerminateChild == FinishPolling(0, TRUE)

\* What every handler run by poll() leaves alone.
LoopFrame == UNCHANGED <<pc, now, last30SecCheckTime, nextSessionId, tokens, wsd>>

\* A callback of the acceptor: addSession for a new session that came with
\* the public URI uri.  A session that is not admitted leaves no trace in
\* the session map, so only admitted sessions use up an id.
AddSessionFrom(uri, resp, canWrite, owner, diskMTime, modifiedTime) ==
    /\ pc = "loop"
    /\ nextSessionId <= MaxSessions
    /\ broker' = addSession(broker, nextSessionId, tokens, uri, resp, canWrite, owner,
                            diskMTime, modifiedTime)
    /\ tokens' = loadTokens(broker, tokens, uri)
    /\ nextSessionId' = IF addSessionResult(broker, tokens, uri, resp) = "ok"
                        THEN nextSessionId + 1 ELSE nextSessionId
    /\ lastOp' = OpSent("addSession", addSessionResult(broker, tokens, uri, resp),
                        "loop", NoSession, addSessionSent(broker, tokens, uri, resp))
    /\ UNCHANGED <<pc, now, last30SecCheckTime, wsd>>

\* addSession for a session of a document on local storage that nobody
\* changes behind the broker.
AddSession(resp, canWrite, owner, diskMTime) ==
    AddSessionFrom(LocalUri, resp, canWrite, owner, diskMTime, FirstStorageTime)

\* A client disconnects: removeSession(id, destroyIfLast).
RemoveSession(id, destroyIfLast) ==
    /\ pc = "loop"
    /\ id < nextSessionId
    /\ LET b == removeSession(broker, id, destroyIfLast, now)
       IN  /\ Len(b.kitSaves) <= MaxPendingSaves
           /\ broker' = b
    /\ lastOp' = Op("removeSession", IF removeSessionDefers(broker, id, destroyIfLast, now)
                    THEN "deferred" ELSE "removed",
                    "loop", NoSession)
    /\ LoopFrame

\* The kit reports the document's status to a session: the view is loaded
\* and the broker is told so (setLoaded).
KitStatus(id) ==
    /\ pc = "loop"
    /\ broker._childProcess = "alive"
    /\ id \in broker._sessions \ broker.viewLoaded
    /\ broker' = [setLoaded(broker) EXCEPT !.viewLoaded = @ \cup {id}]
    /\ lastOp' = Op("setLoaded", "ok", "loop", NoSession)
    /\ LoopFrame

\* The client's "save" command: sendUnoSave for that session.
ClientSave(id) ==
    /\ pc = "loop"
    /\ id \in broker._sessions
    /\ Len(broker.kitSaves) < MaxPendingSaves
    /\ broker' = sendUnoSave(broker, id, NoSession, now)
    /\ lastOp' = Op("sendUnoSave", "ok", "loop", NoSession)
    /\ LoopFrame

\* autoSave(force), called on the poll thread.
AutoSave(force) ==
    /\ pc = "loop"
    /\ Len(broker.kitSaves) < MaxPendingSaves
    /\ broker' = autoSave(broker, force, NoSession, now)
    /\ lastOp' = Op("autoSave", IF autoSaveSent(broker, force, now) THEN "sent" ELSE "nothing",
                    "loop", NoSession)
    /\ LoopFrame

\* The kit reports the modified state: setModified(value).
SetModified(value, thread) ==
    /\ pc = "loop"
    /\ broker._storage = "loaded"
    /\ broker._isModified # value
    /\ broker' = setModified(broker, value)
    /\ lastOp' = Op("setModified", "ok", thread, NoSession)
    /\ LoopFrame

\* Input of a client: updateLastActivityTime().
ClientActivity ==
    /\ pc = "loop"
    /\ broker._sessions # {}
    /\ broker._lastActivityTime # now
    /\ broker' = updateLastActivityTime(broker, now)
    /\ lastOp' = Op("updateLastActivityTime", "ok", "loop", NoSession)
    /\ LoopFrame

\* The kit answers the oldest save command.  The answer is addressed to the
\* session the command was sent for (forwardToClient): it is dropped when
\* that session has left the map, and otherwise handed to saveToStorage.
\* newFileModifiedTime is the timestamp the jailed file has by then,
\* storageSaveResult the storage's answer if it is asked, modifiedTime the
\* modified time the storage reports after a successful upload,
\* isCloseFrame whether the session has received its close frame by then.
KitSaveResponse(kitResult, newFileModifiedTime, storageSaveResult, modifiedTime, isCloseFrame) ==
    /\ pc = "loop"
    /\ broker._childProcess = "alive"
    /\ broker.kitSaves # <<>>
    /\ LET head == Head(broker.kitSaves)
           b    == [broker EXCEPT !.kitSaves = Tail(@)]
           uploads == saveToStorageUploads(b, head.sid, kitResult[1], kitResult[2],
                                           newFileModifiedTime)
       IN  IF head.sid \in b._sessions
           THEN /\ uploads \/ storageSaveResult = "OK"
                /\ (uploads /\ storageSaveResult = "OK") \/ modifiedTime = FirstStorageTime
                /\ broker' = saveToStorage(b, head.sid, kitResult[1], kitResult[2],
                                           newFileModifiedTime, storageSaveResult,
                                           modifiedTime, isCloseFrame, now)
                /\ lastOp' = OpSave("saveToStorage",
                                    saveToStorageOutcome(uploads, kitResult, storageSaveResult),
                                    "loop", head.departing,
                                    saveToStorageSent(b, head.sid, uploads, storageSaveResult),
                                    isCloseFrame)
           ELSE /\ storageSaveResult = "OK" /\ ~isCloseFrame
                /\ modifiedTime = FirstStorageTime
                /\ broker' = b
                /\ lastOp' = Op("forwardToClient", "dropped", "loop", head.departing)
    /\ LoopFrame

\* The kit sends a message with the forward token "client-<sid>":
\* handleInput hands it to forwardToClient.
KitToClient(sid, removes) ==
    /\ pc = "loop"
    /\ broker._childProcess = "alive"
    /\ LET r == forwardToClient(broker, sid, removes)
       IN  /\ broker' = r.b
           /\ lastOp' = OpSteps("forwardToClient",
                                IF sid = AllSessions THEN "all"
                                ELSE IF r.delivered = <<>> THEN "notfound" ELSE "one",
                                "loop", NoSession, r.delivered)
    /\ LoopFrame

\* The kit sends a message without forward token: handleInput.
KitFrame(frame) ==
    /\ pc = "loop"
    /\ broker._childProcess = "alive"
    /\ broker._storage = "loaded"
    /\ broker' = handleInput(broker, frame)
    /\ lastOp' = [OpSent("handleInput", handleInputResult(frame), "loop", NoSession,
                         handleInputSent(broker, frame)) EXCEPT !.steps = <<frame>>]
    /\ LoopFrame

\* The kit dies: childSocketTerminated().
KitDies ==
    /\ pc = "loop"
    /\ broker._childProcess = "alive"
    /\ broker' = childSocketTerminated(kitGone(broker, "dead"), now)
    /\ lastOp' = OpSent("childSocketTerminated", "ok", "loop", NoSession,
                        childSocketTerminatedSent(broker))
    /\ LoopFrame

\* closeDocument(reason): the child is terminated rudely.
CloseDocument ==
    /\ pc = "loop"
    /\ broker._childProcess = "alive"
    /\ broker' = terminateChild(broker, TRUE, now)
    /\ lastOp' = Op("closeDocument", "ok", "loop", NoSession)
    /\ LoopFrame

\* stop(), from any thread.
Stop(thread) ==
    /\ pc \in {"spawn", "loop"}
    /\ ~broker._stop
    /\ broker' = stop(broker)
    /\ lastOp' = Op("stop", "ok", thread, NoSession)
    /\ LoopFrame

\* A client's "tile" command: handleTileRequest.
TileRequest(tile, id, broadcast) ==
    /\ pc = "loop"
    /\ broker._storage = "loaded"
    /\ broker._childProcess = "alive"
    /\ id \in broker._sessions
    /\ broker._tileVersion < MaxTileVersion
    /\ broker' = handleTileRequest(broker, tile, id, broadcast)
    /\ lastOp' = OpSteps("handleTileRequest",
                         IF tile \in broker.cachedTiles THEN "cached" ELSE "render",
                         "loop", NoSession, handleTileRequestKitFrames(broker, tile))
    /\ LoopFrame

\* A client's "tilecombine" command: handleTileCombinedRequest.
TileCombinedRequest(tileCombined, id) ==
    /\ pc = "loop"
    /\ broker._storage = "loaded"
    /\ broker._childProcess = "alive"
    /\ id \in broker._sessions
    /\ tileCombined # {}
    /\ broker._tileVersion + Cardinality(tileCombined) <= MaxTileVersion
    /\ LET r == handleTileCombinedRequest(broker, tileCombined, id)
       IN  /\ broker' = r.b
           /\ lastOp' = OpSteps("handleTileCombinedRequest",
                                IF r.kitFrames = <<>> THEN "cached" ELSE "render",
                                "loop", NoSession,
                                <<[tiles |-> tileCombined, session |-> id,
                                   answered |-> r.answered]>> \o r.kitFrames)
    /\ LoopFrame

\* The kit's "tile:" frame: handleTileResponse.
TileResponse(tile, thread) ==
    /\ pc = "loop"
    /\ broker._childProcess = "alive"
    /\ broker.kitTiles[tile] > 0
    /\ broker' = handleTileResponse(broker, tile)
    /\ lastOp' = Op("handleTileResponse", "ok", thread, NoSession)
    /\ LoopFrame

\* The kit's "invalidatetiles:": invalidateTiles.
InvalidateTiles(tiles, thread) ==
    /\ pc = "loop"
    /\ tiles # {}
    /\ tiles \subseteq broker.cachedTiles
    /\ broker' = invalidateTiles(broker, tiles)
    /\ lastOp' = Op("invalidateTiles", "ok", thread, NoSession)
    /\ LoopFrame

\* The document's life: sessions, saving, timers and teardown.  The tile
\* handlers and setModified read and write the tile fields and the modified
\* flag only (every save of pollThread and removeSession is forced), and
\* are left to TileSpec.  No session is the document's owner, so that a save
\* is attributed to the first session of the map.
Next ==
    \/ Tick
    \/ \E got \in BOOLEAN, terminationFlag \in BOOLEAN, shutdownRequestFlag \in BOOLEAN :
           GetNewChild(got, terminationFlag, shutdownRequestFlag)
    \/ \E shutdownRequestFlag \in BOOLEAN, terminationFlag \in BOOLEAN :
           MainLoopIteration(shutdownRequestFlag, terminationFlag)
    \/ TerminateChild
    \/ \E resp \in LoadResponses, canWrite \in BOOLEAN, owner \in {FALSE},
          diskMTime \in FileTimes :
           AddSession(resp, canWrite, owner, diskMTime)
    \/ \E id \in SessionIds, destroyIfLast \in BOOLEAN : RemoveSession(id, destroyIfLast)
    \/ \E id \in SessionIds : KitStatus(id)
    \/ \E id \in SessionIds : ClientSave(id)
    \/ ClientActivity
    \/ \E kitResult \in KitSaveResults, newFileModifiedTime \in FileTimes,
          storageSaveResult \in SaveResults, isCloseFrame \in BOOLEAN :
           KitSaveResponse(kitResult, newFileModifiedTime, storageSaveResult,
                           FirstStorageTime, isCloseFrame)
    \/ KitDies
    \/ CloseDocument
    \/ Stop("other")

Spec == Init /\ [][Next]_vars

\* The tile traffic and the modified flag of a document with its sessions
\* coming and going.
TileNext ==
    \/ GetNewChild(TRUE, FALSE, FALSE)
    \/ \E canWrite \in BOOLEAN : AddSession("ok", canWrite, FALSE, 1)
    \/ \E id \in SessionIds : RemoveSession(id, TRUE)
    \/ \E id \in SessionIds : KitStatus(id)
    \/ \E tile \in TileIds, id \in SessionIds, broadcast \in BOOLEAN :
           TileRequest(tile, id, broadcast)
    \/ \E value \in BOOLEAN, thread \in Threads : SetModified(value, thread)
    \/ \E tile \in TileIds, thread \in Threads : TileResponse(tile, thread)
    \/ \E tiles \in SUBSET TileIds, thread \in Threads : InvalidateTiles(tiles, thread)

TileSpec == Init /\ [][TileNext]_vars

\* A document that is edited and saved: the kit reports the modified state
\* while sessions come, save and go.
ModNext ==
    \/ GetNewChild(TRUE, FALSE, FALSE)
    \/ MainLoopIteration(FALSE, FALSE)
    \/ \E resp \in LoadResponses, canWrite \in BOOLEAN, diskMTime \in FileTimes :
           AddSession(resp, canWrite, FALSE, diskMTime)
    \/ \E id \in SessionIds, destroyIfLast \in BOOLEAN : RemoveSession(id, destroyIfLast)
    \/ \E id \in SessionIds : KitStatus(id)
    \/ \E id \in SessionIds : ClientSave(id)
    \/ \E value \in BOOLEAN : SetModified(value, "loop")
    \/ \E kitResult \in KitSaveResults, newFileModifiedTime \in FileTimes,
          storageSaveResult \in SaveResults, isCloseFrame \in BOOLEAN :
           KitSaveResponse(kitResult, newFileModifiedTime, storageSaveResult,
                           FirstStorageTime, isCloseFrame)

ModSpec == Init /\ [][ModNext]_vars

\* Sessions that come with any URI, on local or WOPI storage, whatever the
\* storage answers to the load.
TokenNext ==
    \/ GetNewChild(TRUE, FALSE, FALSE)
    \/ \E uri \in Uris, resp \in LoadResponses \cup DownloadFailures, canWrite \in BOOLEAN,
          diskMTime \in FileTimes :
           AddSessionFrom(uri, resp, canWrite, FALSE, diskMTime, FirstStorageTime)
    \/ \E id \in SessionIds, destroyIfLast \in BOOLEAN : RemoveSession(id, destroyIfLast)
    \/ \E id \in SessionIds : KitStatus(id)
    \/ \E id \in SessionIds : ClientSave(id)

TokenSpec == Init /\ [][TokenNext]_vars

\* The URIs of a document that is opened with docpass=yes when on WOPI storage.
DocpassUris == {LocalUri, [wopi |-> TRUE, token |-> 1, docpass |-> TRUE]}

\* Sessions that come to a document whose storage reports any modified
\* time, while the document is rendered and its saves are stored.
LoadNext ==
    \/ GetNewChild(TRUE, FALSE, FALSE)
    \/ \E uri \in DocpassUris, resp \in LoadResponses \cup DownloadFailures,
          canWrite \in BOOLEAN, diskMTime \in FileTimes, modifiedTime \in StorageTimes :
           AddSessionFrom(uri, resp, canWrite, FALSE, diskMTime, modifiedTime)
    \/ \E id \in SessionIds : RemoveSession(id, TRUE)
    \/ \E id \in SessionIds : KitStatus(id)
    \/ \E id \in SessionIds : ClientSave(id)
    \/ \E newFileModifiedTime \in FileTimes, modifiedTime \in StorageTimes :
           KitSaveResponse(<<TRUE, "ok">>, newFileModifiedTime, "OK", modifiedTime, FALSE)
    \/ \E tile \in TileIds, id \in SessionIds : TileRequest(tile, id, FALSE)
    \/ \E tile \in TileIds : TileResponse(tile, "loop")

LoadSpec == Init /\ [][LoadNext]_vars

\* The wait for a kit, and the life of the document whose thread got one.
SpawnNext ==
    \/ SpawnWait
    \/ \E got \in BOOLEAN, terminationFlag \in BOOLEAN, shutdownRequestFlag \in BOOLEAN :
           GetNewChild(got, terminationFlag, shutdownRequestFlag)
    \/ Stop("other")
    \/ \E shutdownRequestFlag \in BOOLEAN, terminationFlag \in BOOLEAN :
           MainLoopIteration(shutdownRequestFlag, terminationFlag)
    \/ TerminateChild
    \/ \E resp \in LoadResponses, canWrite \in BOOLEAN : AddSession(resp, canWrite, FALSE, 1)
    \/ \E id \in SessionIds : RemoveSession(id, TRUE)
    \/ \E id \in SessionIds : KitStatus(id)

SpawnSpec == Init /\ [][SpawnNext]_vars

\* The poll thread keeps running: a turn of the main loop, and the teardown
\* after it, are taken when they stay possible.
MainLoop ==
    \E shutdownRequestFlag \in BOOLEAN, terminationFlag \in BOOLEAN :
        MainLoopIteration(shutdownRequestFlag, terminationFlag)

\* addSession for a document that has no session, or whose only session is
\* on its way out.
AddSoleSession(resp, canWrite, diskMTime) ==
    /\ broker._sessions = {} \/ broker._markToDestroy
    /\ AddSession(resp, canWrite, FALSE, diskMTime)

\* The life of a document that is edited by one session at a time.
SoleNext ==
    \/ Tick
    \/ \E got \in BOOLEAN, terminationFlag \in BOOLEAN, shutdownRequestFlag \in BOOLEAN :
           GetNewChild(got, terminationFlag, shutdownRequestFlag)
    \/ MainLoop
    \/ TerminateChild
    \/ \E resp \in LoadResponses, canWrite \in BOOLEAN, diskMTime \in FileTimes :
           AddSoleSession(resp, canWrite, diskMTime)
    \/ \E id \in SessionIds, destroyIfLast \in BOOLEAN : RemoveSession(id, destroyIfLast)
    \/ \E id \in SessionIds : KitStatus(id)
    \/ \E id \in SessionIds : ClientSave(id)
    \/ ClientActivity
    \/ \E kitResult \in KitSaveResults, newFileModifiedTime \in FileTimes,
          storageSaveResult \in SaveResults, isCloseFrame \in BOOLEAN :
           KitSaveResponse(kitResult, newFileModifiedTime, storageSaveResult,
                           FirstStorageTime, isCloseFrame)
    \/ KitDies
    \/ CloseDocument
    \/ Stop("other")

FairSpec ==
    Init /\ [][SoleNext]_vars /\ WF_vars(MainLoop) /\ WF_vars(TerminateChild)

\* The steady clock of a document whose kit may die: it advances as in Tick,
\* and past that for as long as an empty broker waits for a save to time
\* out (nothing else reads the clock then).
Clock ==
    /\ pc = "loop"
    /\ \/ now < MaxTicks * ClockStep
       \/ broker._sessions = {} /\ SaveInProgress(broker, now)
    /\ now' = now + ClockStep
    /\ lastOp' = Op("tick", "ok", "other", NoSession)
    /\ UNCHANGED <<broker, pc, last30SecCheckTime, nextSessionId, tokens, wsd>>

\* The life of a document whose kit may die under its sessions.
DeathNext ==
    \/ Clock
    \/ GetNewChild(TRUE, FALSE, FALSE)
    \/ MainLoop
    \/ TerminateChild
    \/ \E resp \in LoadResponses, canWrite \in BOOLEAN : AddSession(resp, canWrite, FALSE, 1)
    \/ \E id \in SessionIds, destroyIfLast \in BOOLEAN : RemoveSession(id, destroyIfLast)
    \/ \E id \in SessionIds : KitStatus(id)
    \/ \E id \in SessionIds : ClientSave(id)
    \/ \E storageSaveResult \in SaveResults :
           KitSaveResponse(<<TRUE, "ok">>, 1, storageSaveResult, FirstStorageTime, FALSE)
    \/ KitDies

\* Time passes, and the poll thread keeps running.
DeathSpec ==
    Init /\ [][DeathNext]_vars
         /\ WF_vars(Clock) /\ WF_vars(MainLoop) /\ WF_vars(TerminateChild)

\* A turn of the main loop while no shutdown is requested.
IdleLoop == MainLoopIteration(FALSE, FALSE)

\* The life of a document that is left idle, or left by its sessions, or
\* never loaded, while no shutdown is requested.
IdleNext ==
    \/ Clock
    \/ GetNewChild(TRUE, FALSE, FALSE)
    \/ IdleLoop
    \/ TerminateChild
    \/ \E resp \in LoadResponses, canWrite \in BOOLEAN : AddSession(resp, canWrite, FALSE, 1)
    \/ \E id \in SessionIds, destroyIfLast \in BOOLEAN : RemoveSession(id, destroyIfLast)
    \/ \E id \in SessionIds : KitStatus(id)
    \/ \E id \in SessionIds : ClientSave(id)
    \/ ClientActivity
    \/ \E isCloseFrame \in BOOLEAN :
           KitSaveResponse(<<TRUE, "ok">>, 1, "OK", FirstStorageTime, isCloseFrame)

\* Time passes, and the poll thread keeps running.
IdleSpec ==
    Init /\ [][IdleNext]_vars
         /\ WF_vars(Clock) /\ WF_vars(IdleLoop) /\ WF_vars(TerminateChild)

\* A document that is edited, left alone and saved, timed or forced, while
\* time passes and its kit may die.
AutoSaveNext ==
    \/ Tick
    \/ GetNewChild(TRUE, FALSE, FALSE)
    \/ \E canWrite \in BOOLEAN : AddSession("ok", canWrite, FALSE, 1)
    \/ \E id \in SessionIds, destroyIfLast \in BOOLEAN : RemoveSession(id, destroyIfLast)
    \/ \E id \in SessionIds : KitStatus(id)
    \/ ClientActivity
    \/ \E value \in BOOLEAN : SetModified(value, "loop")
    \/ \E force \in BOOLEAN : AutoSave(force)
    \/ KitSaveResponse(<<TRUE, "ok">>, 1, "OK", FirstStorageTime, FALSE)
    \/ KitDies

AutoSaveSpec == Init /\ [][AutoSaveNext]_vars

\* A document whose sessions may be its owners, saved by the autosave tick,
\* by autoSave and by the departure of its last editor.
OwnerNext ==
    \/ Tick
    \/ GetNewChild(TRUE, FALSE, FALSE)
    \/ IdleLoop
    \/ \E canWrite \in BOOLEAN, owner \in BOOLEAN : AddSession("ok", canWrite, owner, 1)
    \/ \E id \in SessionIds, destroyIfLast \in BOOLEAN : RemoveSession(id, destroyIfLast)
    \/ \E id \in SessionIds : KitStatus(id)
    \/ \E value \in BOOLEAN : SetModified(value, "loop")
    \/ \E force \in BOOLEAN : AutoSave(force)
    \/ KitSaveResponse(<<TRUE, "ok">>, 1, "OK", FirstStorageTime, FALSE)

OwnerSpec == Init /\ [][OwnerNext]_vars

\* A document that is rendered while its sessions come and go, until its
\* thread exits, with any configuration of the tile cache.
TeardownNext ==
    \/ \E got \in BOOLEAN, terminationFlag \in BOOLEAN, shutdownRequestFlag \in BOOLEAN :
           GetNewChild(got, terminationFlag, shutdownRequestFlag)
    \/ MainLoop
    \/ \E socketPolls \in 0..MaxFlushPolls, tileCachePersistent \in BOOLEAN :
           FinishPolling(socketPolls, tileCachePersistent)
    \/ \E canWrite \in BOOLEAN : AddSession("ok", canWrite, FALSE, 1)
    \/ \E id \in SessionIds : RemoveSession(id, TRUE)
    \/ \E id \in SessionIds : KitStatus(id)
    \/ \E tile \in TileIds, id \in SessionIds : TileRequest(tile, id, FALSE)
    \/ \E tile \in TileIds : TileResponse(tile, "loop")
    \/ Stop("other")

TeardownSpec == Init /\ [][TeardownNext]_vars

\* The kit's messages to the sessions of a document, while sessions come,
\* save and go.
ForwardNext ==
    \/ GetNewChild(TRUE, FALSE, FALSE)
    \/ \E canWrite \in BOOLEAN : AddSession("ok", canWrite, FALSE, 1)
    \/ \E id \in SessionIds, destroyIfLast \in BOOLEAN : RemoveSession(id, destroyIfLast)
    \/ \E id \in SessionIds : KitStatus(id)
    \/ \E id \in SessionIds : ClientSave(id)
    \/ KitSaveResponse(<<TRUE, "ok">>, 1, "OK", FirstStorageTime, FALSE)
    \/ \E sid \in SessionIds \cup {AllSessions}, removes \in Removals : KitToClient(sid, removes)

ForwardSpec == Init /\ [][ForwardNext]_vars

\* The frames of the kit, well-formed or not, while the document is
\* rendered for its sessions.
FrameNext ==
    \/ GetNewChild(TRUE, FALSE, FALSE)
    \/ \E canWrite \in BOOLEAN : AddSession("ok", canWrite, FALSE, 1)
    \/ \E id \in SessionIds : RemoveSession(id, TRUE)
    \/ \E id \in SessionIds : KitStatus(id)
    \/ \E tile \in TileIds, id \in SessionIds, broadcast \in BOOLEAN :
           TileRequest(tile, id, broadcast)
    \/ \E tiles \in SUBSET TileIds : InvalidateTiles(tiles, "loop")
    \/ \E frame \in KitFrames : KitFrame(frame)

FrameSpec == Init /\ [][FrameNext]_vars

\* The tiles of a document, asked for one at a time or combined, rendered
\* by the kit and invalidated.
CombineNext ==
    \/ GetNewChild(TRUE, FALSE, FALSE)
    \/ \E canWrite \in BOOLEAN : AddSession("ok", canWrite, FALSE, 1)
    \/ \E id \in SessionIds : RemoveSession(id, TRUE)
    \/ \E id \in SessionIds : KitStatus(id)
    \/ \E tile \in CombinedTileIds, id \in SessionIds, broadcast \in BOOLEAN :
           TileRequest(tile, id, broadcast)
    \/ \E tileCombined \in SUBSET CombinedTileIds, id \in SessionIds :
           TileCombinedRequest(tileCombined, id)
    \/ \E tile \in CombinedTileIds : TileResponse(tile, "loop")
    \/ \E tiles \in SUBSET CombinedTileIds : InvalidateTiles(tiles, "loop")

CombineSpec == Init /\ [][CombineNext]_vars

\* What a step of the process outside the brokers' threads leaves alone.
WsdFrame == UNCHANGED <<broker, pc, now, last30SecCheckTime, nextSessionId, tokens>>

\* A request for a document arrives at an idle handler.
HandleRequest(c, uri) ==
    /\ wsd.requests[c].pc = "idle"
    /\ wsd' = handleRequest(wsd, c, uri)
    /\ lastOp' = Op("getDocKey", "ok", "other", NoSession)
    /\ WsdFrame

\* find-or-create: the handler takes the registry's mutex.
LockDocBrokers(c) ==
    /\ wsd.requests[c].pc = "keyed"
    /\ tryLock(wsd)
    /\ wsd' = lockDocBrokers(wsd, c)
    /\ lastOp' = Op("findOrCreate", "locked", "other", NoSession)
    /\ WsdFrame

\* find-or-create: the handler looks its key up.
FindDocBroker(c) ==
    /\ wsd.requests[c].pc = "locked"
    /\ wsd' = findDocBroker(wsd, c)
    /\ lastOp' = Op("findOrCreate", wsd'.requests[c].pc, "other", NoSession)
    /\ WsdFrame

\* find-or-create: the handler constructs and records the broker.
CreateDocBroker(c) ==
    /\ wsd.requests[c].pc = "absent"
    /\ wsd.nextDocBrokerId <= MaxDocBrokers
    /\ wsd' = createDocBroker(wsd, c)
    /\ lastOp' = Op("findOrCreate", "created", "other", NoSession)
    /\ WsdFrame

\* find-or-create: the handler releases the mutex.
UnlockDocBrokers(c) ==
    /\ wsd.requests[c].pc \in {"present", "created", "marked"}
    /\ wsd' = unlockDocBrokers(wsd, c)
    /\ lastOp' = Op("findOrCreate", wsd'.requests[c].pc, "other", NoSession)
    /\ WsdFrame

\* find-or-create: the handler has waited for the removal and tries again.
RetryFindDocBroker(c) ==
    /\ wsd.requests[c].pc = "waiting"
    /\ wsd' = retryFindDocBroker(wsd, c)
    /\ lastOp' = Op("findOrCreate", "retry", "other", NoSession)
    /\ WsdFrame

\* The request is over: the handler is idle again.
FinishRequest(c) ==
    /\ wsd.requests[c].pc \in {"done", "failed"}
    /\ wsd' = [wsd EXCEPT !.requests[c] = NewRequest]
    /\ lastOp' = Op("finishRequest", "ok", "other", NoSession)
    /\ WsdFrame

\* A registered broker is marked to destroy by its own thread.
MarkToDestroy(id) ==
    /\ \E b \in wsd.DocBrokers : b.id = id /\ ~b.markToDestroy
    /\ wsd' = markToDestroy(wsd, id)
    /\ lastOp' = Op("markToDestroy", "ok", "loop", NoSession)
    /\ WsdFrame

\* A broker that is marked to destroy removes itself from the registry,
\* under the registry's mutex, and its thread exits.
RemoveDocBroker(id) ==
    /\ \E b \in wsd.DocBrokers : b.id = id /\ b.markToDestroy
    /\ tryLock(wsd)
    /\ wsd' = removeDocBroker(wsd, id)
    /\ lastOp' = Op("removeDocBroker", "ok", "loop", NoSession)
    /\ WsdFrame

\* Requests for any public URI: their document keys.
KeyNext ==
    \E c \in Callers, uri \in PublicUris : HandleRequest(c, uri)

KeySpec == Init /\ [][KeyNext]_vars

\* The public URIs of two documents, one of them under two hosts.
RegistryUris ==
    { [host |-> "storage", path |-> <<"/", "a">>, query |-> ""],
      [host |-> "alias", path |-> <<"/", "a">>, query |-> "access_token=t"],
      [host |-> "storage", path |-> <<"/", " ">>, query |-> ""] }

\* The registry: handlers find or create brokers while brokers are marked
\* to destroy and remove themselves.
RegistryNext ==
    \/ \E c \in Callers, uri \in RegistryUris : HandleRequest(c, uri)
    \/ \E c \in Callers : LockDocBrokers(c)
    \/ \E c \in Callers : FindDocBroker(c)
    \/ \E c \in Callers : CreateDocBroker(c)
    \/ \E c \in Callers : UnlockDocBrokers(c)
    \/ \E c \in Callers : RetryFindDocBroker(c)
    \/ \E c \in Callers : FinishRequest(c)
    \/ \E id \in DocBrokerIds : MarkToDestroy(id)
    \/ \E id \in DocBrokerIds : RemoveDocBroker(id)

RegistrySpec == Init /\ [][RegistryNext]_vars

\* ------------------------------------------------------------ properties
\* A save command is unanswered and the main loop counts it as in progress.
SaveInFlight ==
    broker.kitSaves # <<>> /\ SaveInProgress(broker, now)

\* C1: at most one save is in flight: no "uno .uno:Save" is sent to the kit
\* while an earlier one is unanswered, outstanding and not timed out.
C1_OneSaveInFlight ==
    [][Len(broker'.kitSaves) > Len(broker.kitSaves) => ~SaveInFlight]_vars

\* C2: tile coalescing: while sessions wait for the same uncached tile, the
\* kit has been sent one render request for it, whoever asked.
C2_OneRenderRequestPerTile ==
    \A tile \in TileIds :
        Cardinality(broker.tilesBeingRendered[tile]) >= 2
            => broker.kitTiles[tile] <= 1

\* C3: when saveToStorage has processed the result of the save a deferred
\* removal waited for, the departing session is out of the session map.
C3_DeferredRemovalCompleted ==
    (lastOp.op = "saveToStorage" /\ lastOp.departing # NoSession)
        => lastOp.departing \notin broker._sessions

\* C4: after saveToStorage has returned, whatever the result, the save is
\* stamped as completed: _lastSaveTime >= _lastSaveRequestTime.
C4_SaveResponseStamps ==
    lastOp.op = "saveToStorage"
        => broker._lastSaveTime >= broker._lastSaveRequestTime

\* C5 (as stated): stop is final: while the thread is in its main loop, _stop
\* never goes back to false, so no later turn of the loop runs with it false.
C5_StopIsFinal ==
    [][(pc = "loop" /\ broker._stop) => ~(pc' = "loop" /\ ~broker'._stop)]_vars

\* C5 (amended): _stop goes back to false only by a successful addSession,
\* and a turn of the main loop that starts with _stop set leaves the loop.
C5_StopClearedOnlyByAddSession ==
    [][/\ (broker._stop /\ ~broker'._stop)
            => (lastOp'.op = "addSession" /\ lastOp'.res = "ok")
       /\ (lastOp'.op = "pollThread" /\ broker._stop)
            => (pc' = "flush" /\ broker'._stop)]_vars

\* A turn of the main loop that ran no timer check (a save was in progress)
\* has found _stop set by an earlier callback, and has left the loop.
C5_Witness ==
    /\ lastOp.op = "pollThread" /\ lastOp.res = "saving"
    /\ broker._stop /\ pc = "flush"

\* C6 (as stated): while a save is in progress the thread has not left its
\* main loop and the child has not been terminated.
C6_NoTeardownWhileSaving ==
    SaveInProgress(broker, now)
        => (pc \in {"spawn", "loop"} /\ broker._childProcess # "closed")

\* C6 (amended): a turn of the main loop taken while a save is in progress
\* runs none of the timer checks: it leaves the broker and
\* last30SecCheckTime as they are.
C6_GateSkipsTimerChecks ==
    [][(lastOp'.op = "pollThread" /\ SaveInProgress(broker, now))
          => (broker' = broker /\ last30SecCheckTime' = last30SecCheckTime)]_vars

\* A turn of the main loop has been taken during a save, and the thread is
\* still in the loop with the save still in progress.
C6_Witness ==
    /\ lastOp.op = "pollThread" /\ lastOp.res = "saving"
    /\ pc = "loop" /\ SaveInFlight

\* C7: a broker marked to destroy refuses new sessions: load reports failure
\* whatever the storage would answer, addSession raises, and no step adds a
\* session to the map.
C7_MarkedToDestroyRefuses ==
    [][broker._markToDestroy
          => /\ \A uri \in Uris, resp \in LoadResponses \cup DownloadFailures :
                    loadResult(broker, tokens, uri, resp) = "false"
             /\ broker'._sessions \subseteq broker._sessions
             /\ lastOp'.op = "addSession" => lastOp'.res = "markedToDestroy"]_vars

\* addSession has been refused by a broker that is marked to destroy and
\* still holds its departing session.
C7_Witness ==
    /\ lastOp.op = "addSession" /\ lastOp.res = "markedToDestroy"
    /\ broker._markToDestroy /\ broker._sessions # {}

\* The only session is a writer, the document is loaded and the kit lives.
LastEditor(id) ==
    /\ pc = "loop"
    /\ broker._sessions = {id} /\ id \notin broker.readOnly
    /\ broker._isLoaded /\ broker._childProcess = "alive"

\* removeSession(id, true) of the last editor sends the forced save for that
\* session and keeps the session, marked to destroy.
ForcedSaveSent(id) ==
    LET b == removeSession(broker, id, TRUE, now)
    IN  /\ removeSessionDefers(broker, id, TRUE, now)
        /\ b.kitSaves = Append(broker.kitSaves, [sid |-> id, departing |-> id])
        /\ b._sessions = {id} /\ b._markToDestroy /\ b._lastEditableSession

\* The kit's successful save has been stored for a broker marked to destroy.
SavedWhileMarked ==
    lastOp.op = "saveToStorage" /\ lastOp.res = "OK" /\ broker._markToDestroy

\* The child is terminated and the thread has finished.
Terminated ==
    pc = "done" /\ broker._childProcess = "closed"

\* C8: the last editor leaves: removeSession(S1, true) sends a forced save;
\* once the successful save is stored the session map is empty and _stop is
\* set; and from there the broker reaches Terminated.
C8_LastEditorLeaves ==
    /\ [](\A id \in SessionIds : LastEditor(id) => ForcedSaveSent(id))
    /\ [](SavedWhileMarked => (broker._sessions = {} /\ broker._stop))
    /\ (SavedWhileMarked ~> Terminated)

\* The last editor's save has been stored, its session removed, and the
\* thread is still in the main loop, about to find _stop set.
C8_Witness ==
    /\ SavedWhileMarked /\ lastOp.departing # NoSession
    /\ broker._sessions = {} /\ broker._stop /\ pc = "loop"

\* C9: a save is completed within the command timeout of its request: once
\* the timeout has passed, _lastSaveTime >= _lastSaveRequestTime.
C9_CompletedWithinTimeout ==
    (now - broker._lastSaveRequestTime > CommandTimeout)
        => broker._lastSaveTime >= broker._lastSaveRequestTime

\* C10: only the poll thread runs the operations that change the broker's
\* state; other threads construct the broker, signal stop, and let time pass.
C10_MutatorsOnLoopThread ==
    lastOp.thread = "other" => lastOp.op \in {"construct", "stop", "tick"}

\* C11 (as stated): a failed upload (FAILED or DISKFULL) leaves the broker
\* alive: saveToStorage, processing the failed result, does not set _stop.
C11_FailedUploadKeepsAlive ==
    [][(lastOp'.op = "saveToStorage" /\ lastOp'.res \in {"FAILED", "DISKFULL"})
          => (broker'._stop = broker._stop)]_vars

\* C12: when the upload returns DISKFULL, every session of the map is sent
\* "error: cmd=storage kind=savediskfull" and nobody else is, and every
\* session that stays in the map is read-only.
C12_DiskFullToAll ==
    [][(lastOp'.op = "saveToStorage" /\ lastOp'.res = "DISKFULL")
          => /\ lastOp'.sent = {<<s, SaveDiskFull>> : s \in broker._sessions}
             /\ broker'._sessions \subseteq broker'.readOnly]_vars

\* A disk-full upload has been reported to two sessions, both read-only now.
C12_Witness ==
    /\ lastOp.op = "saveToStorage" /\ lastOp.res = "DISKFULL"
    /\ Cardinality(broker._sessions) = 2
    /\ broker._sessions \subseteq broker.readOnly
    /\ lastOp.sent = {<<s, SaveDiskFull>> : s \in broker._sessions}

\* C13: when the upload returns UNAUTHORIZED or FAILED, the session the
\* save was sent for is sent the matching error, no other frame goes to any
\* session, and no session's read-only permission changes.
C13_ErrorToOriginator ==
    [][(lastOp'.op = "saveToStorage" /\ lastOp'.res \in {"UNAUTHORIZED", "FAILED"})
          => /\ lastOp'.sent =
                    {<<Head(broker.kitSaves).sid,
                       IF lastOp'.res = "FAILED" THEN SaveFailed ELSE SaveUnauthorized>>}
             /\ \A s \in broker'._sessions :
                    s \in broker'.readOnly <=> s \in broker.readOnly]_vars

\* A failed upload has been reported to one of two sessions, and a writer
\* is still a writer.
C13_Witness ==
    /\ lastOp.op = "saveToStorage" /\ lastOp.res = "FAILED"
    /\ Cardinality(broker._sessions) = 2
    /\ Cardinality(lastOp.sent) = 1
    /\ broker._sessions \ broker.readOnly # {}

\* C14: _isModified implies the tile cache's unsaved-changes flag; the two
\* flags change together, to the same value, and only by setModified or by
\* an upload that returned OK; any other save result leaves both alone.
C14_ModifiedTogether ==
    /\ [](broker._isModified => broker.unsavedChanges)
    /\ [][/\ (\/ broker'._isModified # broker._isModified
              \/ broker'.unsavedChanges # broker.unsavedChanges)
              => (/\ broker'._isModified = broker'.unsavedChanges
                  /\ \/ lastOp'.op = "setModified"
                     \/ lastOp'.op = "saveToStorage" /\ lastOp'.res = "OK")
          /\ (lastOp'.op = "saveToStorage" /\ lastOp'.res # "OK")
              => (/\ broker'._isModified = broker._isModified
                  /\ broker'.unsavedChanges = broker.unsavedChanges)]_vars

\* A modified document's upload has failed, and both flags are still set.
C14_Witness ==
    /\ lastOp.op = "saveToStorage" /\ lastOp.res = "FAILED"
    /\ broker._isModified /\ broker.unsavedChanges

\* C15: token replay on WOPI storage: a load that reaches the token check
\* records its token; with a token that is not in the table (the first
\* load presenting it) the check lets the load through; with a token that
\* is in the table the load throws unless the URI carries docpass=yes.  The
\* table never loses a token, and a refused replay adds no session.
C15_TokenReplay ==
    /\ [](\A uri \in Uris, resp \in LoadResponses \cup DownloadFailures :
            loadChecksToken(broker, uri)
                => /\ uri.token \in loadTokens(broker, tokens, uri)
                   /\ (uri.token \in tokens /\ ~uri.docpass)
                        => loadResult(broker, tokens, uri, resp) = "throw"
                   /\ (uri.token \notin tokens \/ uri.docpass)
                        => loadResult(broker, tokens, uri, "ok") = "true")
    /\ [][/\ tokens \subseteq tokens'
          /\ (lastOp'.op = "addSession" /\ lastOp'.res = "tokenUsed")
              => (broker'._sessions = broker._sessions /\ tokens' = tokens)]_vars

\* A second session has presented the token of the first, which is in the
\* map, and has been refused.
C15_Witness ==
    /\ lastOp.op = "addSession" /\ lastOp.res = "tokenUsed"
    /\ broker.wopi /\ broker._sessions # {} /\ Cardinality(tokens) = 1

\* C20: load for a further session of a broker whose storage is loaded
\* downloads nothing: the timestamp of the local copy, the tile cache and
\* _documentLastModifiedTime stay as they are, whatever modified time the
\* storage reports now.
C20_IdempotentLoad ==
    /\ [](broker._storage = "loaded"
            => \A uri \in Uris, resp \in LoadResponses \cup DownloadFailures,
                  diskMTime \in FileTimes, modifiedTime \in StorageTimes :
                   load(broker, tokens, uri, resp, diskMTime, modifiedTime)
                       = broker)
    /\ [][(broker._storage = "loaded" /\ lastOp'.op = "addSession")
              => /\ broker'._storage = "loaded"
                 /\ broker'._lastFileModifiedTime = broker._lastFileModifiedTime
                 /\ broker'.cachedTiles = broker.cachedTiles
                 /\ broker'.tilesBeingRendered = broker.tilesBeingRendered
                 /\ broker'._documentLastModifiedTime
                        = broker._documentLastModifiedTime]_vars

\* A second session has been admitted to a document that was downloaded for
\* the first, has a tile in its cache and a save on its way.
C20_Witness ==
    /\ lastOp.op = "addSession" /\ lastOp.res = "ok"
    /\ Cardinality(broker._sessions) = 2
    /\ broker._storage = "loaded" /\ broker.cachedTiles # {}
    /\ broker._lastFileModifiedTime = 0

\* C16 (as stated): when no kit was obtained within 5 x COMMAND_TIMEOUT_MS,
\* the broker has reported unavailability to the caller, _stop is set and
\* the thread has finished without entering its main loop.
C16_SpawnTimeoutReported ==
    (lastOp.op = "getNewChild" /\ lastOp.res = "timeout")
        => (lastOp.sent # {} /\ broker._stop /\ pc = "done")

\* C17: when load fails inside addSession, the caller gets the failure, the
\* session map is as it was (the new session is not in it), and the broker
\* is marked to destroy by the failure exactly when the map is empty
\* (otherwise the flag stays as it was).
C17_LoadFailureMarksEmptyBroker ==
    [][(lastOp'.op = "addSession" /\ lastOp'.res # "ok")
          => /\ broker'._sessions = broker._sessions
             /\ nextSessionId \notin broker'._sessions
             /\ nextSessionId' = nextSessionId
             /\ broker._sessions = {} => broker'._markToDestroy
             /\ broker._sessions # {} => broker'._markToDestroy = broker._markToDestroy]_vars

\* A load has failed for a second session: the first session is still in
\* the map and the broker is not marked to destroy.
C17_Witness ==
    /\ lastOp.op = "addSession" /\ lastOp.res = "loadThrow"
    /\ broker._sessions # {} /\ ~broker._markToDestroy

\* C18: addSession on a broker that is marked to destroy ends in one of two
\* ways: the broker is revived (the session is in the map; _markToDestroy,
\* _lastEditableSession and _stop are false), or the session is rejected
\* cleanly (the caller gets a failure, the map is as it was and the kit has
\* been sent no "session" frame).
C18_RevivedOrRejected ==
    [][(broker._markToDestroy /\ lastOp'.op = "addSession")
          => \/ /\ lastOp'.res = "ok"
                /\ nextSessionId \in broker'._sessions
                /\ ~broker'._markToDestroy
                /\ ~broker'._lastEditableSession
                /\ ~broker'._stop
             \/ /\ lastOp'.res # "ok"
                /\ broker'._sessions = broker._sessions
                /\ broker'.kitSessions = broker.kitSessions]_vars

\* A session has been rejected by a broker whose last editor is waiting for
\* its save: that editor is still the kit's only session.
C18_Witness ==
    /\ lastOp.op = "addSession" /\ lastOp.res # "ok"
    /\ broker._markToDestroy /\ broker._lastEditableSession
    /\ broker._sessions # {} /\ broker.kitSessions = broker._sessions

\* The kit's socket has terminated under a broker that had sessions.
DiedWithSessions ==
    lastOp.op = "childSocketTerminated" /\ lastOp.sent # {}

SameDocument(u1, u2) ==
    /\ u1.path = u2.path
    /\ (u1.host = "elsewhere") = (u2.host = "elsewhere")

\* C21 (as stated): document keys separate exactly what must be separate:
\* two requests have equal keys if and only if they are for the same
\* document (URIs that differ in host alias or query only), so that the
\* same path on an unrelated storage host has another key.
C21_KeysSeparateDocuments ==
    \A c1, c2 \in Callers :
        (wsd.requests[c1].pc = "keyed" /\ wsd.requests[c2].pc = "keyed")
            => ((wsd.requests[c1].docKey = wsd.requests[c2].docKey)
                    <=> SameDocument(wsd.requests[c1].uri, wsd.requests[c2].uri))

\* The brokers of the registry that have the id of a handle.
Registered(id) == {b \in wsd.DocBrokers : b.id = id}

\* The handler has been handed a broker by find-or-create.
Holds(c) == wsd.requests[c].pc \in {"present", "created", "done"}

\* C22: one broker per live document key: the registry never holds two
\* brokers under one key; a handle is handed out only for the broker that
\* is registered under the request's key and is not marked to destroy; and
\* two handlers that hold registered brokers for one key hold the same one.
C22_OneBrokerPerKey ==
    /\ [](\A b1, b2 \in wsd.DocBrokers : (b1.docKey = b2.docKey) => (b1 = b2))
    /\ [](\A c1, c2 \in Callers :
            (/\ Holds(c1) /\ Holds(c2)
             /\ wsd.requests[c1].docKey = wsd.requests[c2].docKey
             /\ Registered(wsd.requests[c1].docBroker) # {}
             /\ Registered(wsd.requests[c2].docBroker) # {})
                => (wsd.requests[c1].docBroker = wsd.requests[c2].docBroker))
    /\ [][\A c \in Callers :
            (wsd'.requests[c].docBroker \notin {NoBroker, wsd.requests[c].docBroker})
                => (\E b \in wsd'.DocBrokers :
                        /\ b.id = wsd'.requests[c].docBroker
                        /\ b.docKey = wsd.requests[c].docKey
                        /\ ~b.markToDestroy)]_vars

\* Two handlers, serving the same document under two host names, have been
\* handed the same registered broker.
C22_Witness ==
    /\ \A c \in Callers : wsd.requests[c].pc = "done"
    /\ wsd.requests[1].uri.host # wsd.requests[2].uri.host
    /\ wsd.requests[1].docBroker = wsd.requests[2].docBroker
    /\ Registered(wsd.requests[1].docBroker) # {}

\* C23: the session map changes by addSession and removeSession only: a
\* session enters the map by a successful addSession, which adds that
\* session and no other; a session leaves the map by removeSession, called
\* for a disconnecting client or by shutdownClients (child death, teardown),
\* or by the removal of the save path; every other operation leaves the
\* map as it is.
C23_SessionsByAddAndRemove ==
    [][/\ (broker._sessions \ broker'._sessions # {})
            => lastOp'.op \in {"removeSession", "saveToStorage",
                               "childSocketTerminated", "terminateChild"}
       /\ (broker'._sessions \ broker._sessions # {})
            => (/\ lastOp'.op = "addSession" /\ lastOp'.res = "ok"
                /\ broker'._sessions = broker._sessions \cup {nextSessionId})
       /\ (lastOp'.op = "addSession" /\ lastOp'.res = "ok")
            => (nextSessionId \in broker'._sessions)]_vars

\* The document has been closed under two sessions: the kit is gone and
\* both sessions are still in the map.
C23_Witness ==
    /\ lastOp.op = "closeDocument"
    /\ Cardinality(broker._sessions) = 2
    /\ broker._childProcess = "closed"

\* The condition under which the claim has autoSave(force) send a save.
AutoSaveDue(force) ==
    /\ broker._sessions # {}
    /\ broker._storage # "null"
    /\ broker._isLoaded
    /\ broker._childProcess = "alive"
    /\ \/ force
       \/ /\ broker._isModified
          /\ \/ now - broker._lastActivityTime >= IdleSaveDurationMs
             \/ now - broker._lastSaveTime >= AutoSaveDurationMs

\* C24: autoSave(force) sends a save command if and only if there are
\* sessions, the storage is bound, the document is loaded, the kit is alive,
\* and the save is forced or the document is modified and has been idle for
\* the idle-save time or unsaved for the auto-save interval.  A save that is
\* sent goes to the kit for the saving session and is stamped as requested;
\* when none is sent the broker is left as it is.
C24_AutoSaveSendsIffDue ==
    /\ [](\A force \in BOOLEAN :
            LET b == autoSave(broker, force, NoSession, now)
            IN  /\ autoSaveSent(broker, force, now) <=> AutoSaveDue(force)
                /\ AutoSaveDue(force)
                     => /\ Len(b.kitSaves) = Len(broker.kitSaves) + 1
                        /\ b.kitSaves[Len(b.kitSaves)].sid = savingSessionId(broker)
                        /\ b._lastSaveRequestTime = now
                /\ ~AutoSaveDue(force) => b = broker)
    /\ [][lastOp'.op = "autoSave"
              => IF lastOp'.res = "sent"
                 THEN Len(broker'.kitSaves) = Len(broker.kitSaves) + 1
                 ELSE broker' = broker]_vars

\* A forced autosave of an unmodified document has sent its save command.
C24_Witness ==
    /\ lastOp.op = "autoSave" /\ lastOp.res = "sent"
    /\ ~broker._isModified
    /\ broker.kitSaves # <<>>

\* C25: when saveToStorage has handled the kit's save result, whatever the
\* upload's outcome: the session the save was sent for has been removed if
\* and only if the broker is marked to destroy or that session is closing,
\* no other session has been removed, and saveToStorage has set _stop if
\* and only if the broker is marked to destroy or the map is then empty
\* (otherwise _stop is as it was).
C25_SaveRemovesAndStops ==
    [][lastOp'.op = "saveToStorage"
          => LET sid == Head(broker.kitSaves).sid
             IN  /\ (sid \notin broker'._sessions)
                        <=> (broker._markToDestroy \/ lastOp'.closing)
                 /\ broker._sessions \ {sid} \subseteq broker'._sessions
                 /\ broker'._stop
                        <=> (\/ broker._stop
                             \/ broker._markToDestroy
                             \/ broker'._sessions = {})]_vars

\* A failed upload's result has been handled for the only session, which
\* was closing: it is removed and the broker, never marked, is stopped.
C25_Witness ==
    /\ lastOp.op = "saveToStorage" /\ lastOp.res = "FAILED"
    /\ lastOp.closing /\ ~broker._markToDestroy
    /\ broker._sessions = {} /\ broker._stop

\* C26: removeSession(id, destroyIfLast) for a session of the map: the
\* session is still in the map when removeSession returns if and only if
\* _lastEditableSession is true and the forced autosave was sent to the
\* kit; then the kit is sent no "disconnect"; otherwise the session is out
\* of the map, the kit has been sent its "disconnect" and no save.
C26_RemovedUnlessSaveSent ==
    [](\A id \in broker._sessions, destroyIfLast \in BOOLEAN :
        LET b == removeSession(broker, id, destroyIfLast, now)
            saveSent == Len(b.kitSaves) = Len(broker.kitSaves) + 1
        IN  /\ (id \in b._sessions) <=> (b._lastEditableSession /\ saveSent)
            /\ (id \in b._sessions)
                    => (b._sessions = broker._sessions /\ b.kitSessions = broker.kitSessions)
            /\ (id \notin b._sessions)
                    => (/\ b._sessions = broker._sessions \ {id}
                        /\ id \notin b.kitSessions
                        /\ b.kitSaves = broker.kitSaves))

\* The only writer has left a document it shares with a reader: its
\* removal waits for the forced save, and both sessions are in the map.
C26_Witness ==
    /\ lastOp.op = "removeSession" /\ lastOp.res = "deferred"
    /\ Cardinality(broker._sessions) = 2
    /\ broker._lastEditableSession /\ ~broker._markToDestroy
    /\ broker.kitSaves # <<>>

SaveAwaited ==
    broker._sessions # {} /\ broker._lastFileModifiedTime = 0

\* C28: a save that sendUnoSave sends for a session of the map stamps
\* _lastSaveRequestTime and sets _lastFileModifiedTime to the epoch; the
\* timestamp stays there until saveToStorage runs; and the saveToStorage
\* that finds it there, for a session of the map and a result that is not
\* "unmodified", attempts the upload whatever the timestamp of the file.
C28_SaveAfterSendUploads ==
    /\ [][/\ (Len(broker'.kitSaves) > Len(broker.kitSaves))
               => (/\ broker'._lastFileModifiedTime = 0
                   /\ broker'._lastSaveRequestTime = now
                   /\ broker'.kitSaves[Len(broker'.kitSaves)].sid \in broker._sessions)
          /\ (SaveAwaited /\ broker'._sessions # {} /\ lastOp'.op # "saveToStorage")
               => SaveAwaited'
          /\ (SaveAwaited /\ lastOp'.op = "saveToStorage")
               => (lastOp'.res # "skipped")]_vars
    /\ [](SaveAwaited
            => \A sid \in broker._sessions, kitResult \in KitSaveResults,
                  newFileModifiedTime \in FileTimes :
                    (kitResult # <<FALSE, "unmodified">>)
                        => saveToStorageUploads(broker, sid, kitResult[1], kitResult[2],
                                                newFileModifiedTime))

\* The result of a save has been uploaded although the file carries the
\* timestamp it had when it was last persisted, and no last editor is leaving.
C28_Witness ==
    /\ lastOp.op = "saveToStorage" /\ lastOp.res = "OK"
    /\ ~broker._lastEditableSession /\ broker._sessions # {}
    /\ broker._lastFileModifiedTime = MaxMTime

\* C29: saveToStorage with success = false and result = "unmodified"
\* uploads nothing, for a session of the map or not: saveToStorageInternal
\* stamps _lastSaveTime, changes nothing else and returns true, and
\* saveToStorage leaves _isModified, the unsaved-changes flag,
\* _lastFileModifiedTime and _documentLastModifiedTime as they are.
C29_UnmodifiedStampsOnly ==
    /\ [](\A sid \in SessionIds, newFileModifiedTime \in FileTimes,
             storageSaveResult \in SaveResults, modifiedTime \in StorageTimes,
             isCloseFrame \in BOOLEAN :
            LET b1 == saveToStorageInternal(broker, sid, FALSE, "unmodified",
                          newFileModifiedTime, storageSaveResult, modifiedTime, now)
                b2 == saveToStorage(broker, sid, FALSE, "unmodified", newFileModifiedTime,
                          storageSaveResult, modifiedTime, isCloseFrame, now)
            IN  /\ ~saveToStorageUploads(broker, sid, FALSE, "unmodified", newFileModifiedTime)
                /\ saveToStorageResult(broker, sid, FALSE, "unmodified", newFileModifiedTime,
                                       storageSaveResult)
                /\ b1 = [broker EXCEPT !._lastSaveTime = now]
                /\ b2._lastSaveTime = now
                /\ b2._isModified = broker._isModified
                /\ b2.unsavedChanges = broker.unsavedChanges
                /\ b2._lastFileModifiedTime = broker._lastFileModifiedTime
                /\ b2._documentLastModifiedTime = broker._documentLastModifiedTime)
    /\ [][(lastOp'.op = "saveToStorage" /\ lastOp'.res = "unmodified")
              => /\ lastOp'.sent = {}
                 /\ broker'._lastSaveTime = now
                 /\ broker'._isModified = broker._isModified
                 /\ broker'.unsavedChanges = broker.unsavedChanges
                 /\ broker'._lastFileModifiedTime = broker._lastFileModifiedTime
                 /\ broker'._documentLastModifiedTime
                        = broker._documentLastModifiedTime]_vars

\* The kit has answered "unmodified" for a document that the broker holds
\* to be modified: the save is stamped as completed and the flags are set.
C29_Witness ==
    /\ lastOp.op = "saveToStorage" /\ lastOp.res = "unmodified"
    /\ broker._isModified /\ broker.unsavedChanges
    /\ broker._lastSaveTime = now /\ broker._lastFileModifiedTime = 0

\* The idle-destroy test of the main loop, on the broker as a turn finds it.
IdleDestroyDue ==
    /\ broker._isLoaded \/ broker._markToDestroy
    /\ \/ broker._sessions = {}
       \/ now - broker._lastActivityTime >= IdleDocTimeoutSecs

\* C30: idle destroy: a turn of the main loop that is not gated by a save
\* in progress sets _stop, and leaves the loop, when the broker is loaded
\* or marked to destroy and its session map is empty or it has been idle
\* for the idle timeout; a turn that finds a broker neither loaded nor
\* marked, and not stopped, does not stop it.  Hence a broker that is
\* loaded or marked to destroy, with an empty session map, terminates
\* unless a session joins it.
C30_IdleDestroy ==
    /\ [][(lastOp'.op = "pollThread" /\ lastOp'.res = "checked")
              => /\ IdleDestroyDue => (broker'._stop /\ pc' = "flush")
                 /\ (~broker._isLoaded /\ ~broker._markToDestroy /\ ~broker._stop)
                        => (~broker'._stop /\ pc' = "loop")]_vars
    /\ (((broker._isLoaded \/ broker._markToDestroy) /\ broker._sessions = {})
            ~> (pc = "done" \/ broker._sessions # {}))

\* A turn of the main loop has stopped a loaded broker that has a session
\* but has been idle for the idle timeout.
C30_Witness ==
    /\ lastOp.op = "pollThread" /\ lastOp.res = "checked"
    /\ broker._isLoaded /\ ~broker._markToDestroy
    /\ broker._sessions # {} /\ broker._lastActivityTime = 0
    /\ broker._stop /\ pc = "flush"

\* The operations that save through autoSave.
AutoSavers == {"autoSave", "removeSession", "pollThread"}

\* C31: a save of autoSave is attributed to a document owner of the session
\* map whenever the map has one, to another session of the map only when it
\* has none, and never to a session that is not in the map; sendUnoSave for
\* a session that is not in the map sends nothing.
C31_SaveAttributedToOwner ==
    /\ [](\A id \in SessionIds \ broker._sessions :
              /\ ~sendUnoSaveSent(broker, id)
              /\ sendUnoSave(broker, id, NoSession, now) = broker)
    /\ [][(lastOp'.op \in AutoSavers /\ Len(broker'.kitSaves) > Len(broker.kitSaves))
              => LET sid == broker'.kitSaves[Len(broker'.kitSaves)].sid
                 IN  /\ sid \in broker._sessions
                     /\ (broker._sessions \cap broker.documentOwner # {})
                            => sid \in broker.documentOwner]_vars

\* autoSave has saved for the owner, the second session of the map, while
\* the first session is not an owner.
C31_Witness ==
    /\ lastOp.op = "autoSave" /\ lastOp.res = "sent"
    /\ broker._sessions = {1, 2} /\ broker.documentOwner = {2}
    /\ broker.kitSaves # <<>>
    /\ broker.kitSaves[Len(broker.kitSaves)].sid = 2

\* C32: an addSession that succeeds sends "session <id> ..." to the kit,
\* inserts the session into the session map, returns the number of sessions
\* the map then has, and leaves _lastEditableSession, _markToDestroy and
\* _stop false, whatever they were.
C32_AddSessionAdmits ==
    /\ [](\A resp \in LoadResponses, canWrite \in BOOLEAN, owner \in BOOLEAN, diskMTime \in FileTimes :
              (pc = "loop" /\ addSessionResult(broker, tokens, LocalUri, resp) = "ok")
                  => LET id == nextSessionId
                         b  == addSession(broker, id, tokens, LocalUri, resp, canWrite, owner,
                                          diskMTime, FirstStorageTime)
                     IN  /\ b._sessions = broker._sessions \cup {id}
                         /\ addSessionInternalCount(broker, id) = Cardinality(b._sessions)
                         /\ isAlive(broker) => id \in b.kitSessions
                         /\ ~b._lastEditableSession /\ ~b._markToDestroy /\ ~b._stop)
    /\ [][(lastOp'.op = "addSession" /\ lastOp'.res = "ok")
              => /\ nextSessionId \in broker'._sessions
                 /\ nextSessionId \in broker'.kitSessions
                 /\ ~broker'._lastEditableSession
                 /\ ~broker'._markToDestroy
                 /\ ~broker'._stop]_vars

\* A second session has been admitted to a loaded document after the first
\* one has left, and the broker is not stopping.
C32_Witness ==
    /\ lastOp.op = "addSession" /\ lastOp.res = "ok"
    /\ broker._isLoaded
    /\ broker._sessions = {2} /\ 2 \in broker.kitSessions
    /\ ~broker._stop /\ ~broker._markToDestroy /\ ~broker._lastEditableSession

\* The places of a call among the calls of the thread's exit.
StepsAt(steps, step) == {i \in 1..Len(steps) : steps[i] = step}

\* C33: teardown: after the main loop the sockets are flushed, for no
\* longer than flushTimeoutMs and one poll; only then are the clients shut
\* down and the child terminated (terminateChild), then the poll is
\* stopped, and the tiles are removed if and only if the tile cache is not
\* persistent; _stop is true whenever the thread has exited.
C33_TeardownOrder ==
    /\ [](pc = "done" => broker._stop)
    /\ [](\A socketPolls \in 0..MaxFlushPolls :
              /\ flushSockets(0, socketPolls).elapsedMs <= flushTimeoutMs + POLL_TIMEOUT_MS \div 5
              /\ flushSockets(0, socketPolls).polls <= socketPolls)
    /\ [](pc = "flush" =>
              \A socketPolls \in 0..MaxFlushPolls, tileCachePersistent \in BOOLEAN :
                  LET b == pollThreadExit(broker, socketPolls, tileCachePersistent, now)
                      steps == pollThreadExitSteps(broker, socketPolls, tileCachePersistent)
                  IN  /\ b._stop /\ b._childProcess = "closed"
                      /\ tileCachePersistent => b.cachedTiles = broker.cachedTiles
                      /\ ~tileCachePersistent => b.cachedTiles = {}
                      /\ StepsAt(steps, "completeCleanup") # {} => ~tileCachePersistent)
    /\ [][(lastOp'.op = "terminateChild")
              => LET steps == lastOp'.steps
                 IN  /\ pc = "flush" /\ pc' = "done"
                     /\ Cardinality(StepsAt(steps, "terminateChild")) = 1
                     /\ Cardinality(StepsAt(steps, "stop")) = 1
                     /\ \A i \in StepsAt(steps, "poll"), j \in StepsAt(steps, "terminateChild") : i < j
                     /\ \A i \in StepsAt(steps, "terminateChild"), j \in StepsAt(steps, "stop") : i < j
                     /\ \A i \in StepsAt(steps, "stop"), j \in StepsAt(steps, "completeCleanup") : i < j
                     /\ broker'._stop /\ broker'._childProcess = "closed"
                     /\ broker'.cachedTiles = IF StepsAt(steps, "completeCleanup") # {}
                                              THEN {} ELSE broker.cachedTiles]_vars

\* The thread has exited after a flush that ran into its timeout, and has
\* removed the tiles of a document that was loaded and rendered.
C33_Witness ==
    /\ pc = "done" /\ lastOp.op = "terminateChild"
    /\ Cardinality(StepsAt(lastOp.steps, "poll")) = flushTimeoutMs + 1
    /\ StepsAt(lastOp.steps, "completeCleanup") # {}
    /\ broker._tileVersion > 0 /\ broker.cachedTiles = {}
    /\ broker._stop /\ broker._childProcess = "closed"

\* How many times a message was handed to session s.
Deliveries(delivered, s) == Cardinality({i \in 1..Len(delivered) : delivered[i] = s})

\* C34: a kit message for "client-<sid>" is handed to session sid alone when
\* it is in the session map and to nobody otherwise; a message for
\* "client-all" is handed exactly once to every session the map had before
\* the first delivery, whatever sessions the deliveries remove.
C34_ForwardedToClients ==
    /\ [](\A sid \in SessionIds \cup {AllSessions}, removes \in Removals :
              LET r == forwardToClient(broker, sid, removes)
              IN  /\ (sid \in broker._sessions) => r.delivered = <<sid>>
                  /\ (sid \in SessionIds \ broker._sessions)
                         => (r.delivered = <<>> /\ r.b = broker)
                  /\ (sid = AllSessions)
                         => \A s \in SessionIds :
                                Deliveries(r.delivered, s) = IF s \in broker._sessions THEN 1 ELSE 0)
    /\ [][(lastOp'.op = "forwardToClient" /\ lastOp'.res = "all")
              => \A s \in SessionIds :
                     Deliveries(lastOp'.steps, s) = IF s \in broker._sessions THEN 1 ELSE 0]_vars

\* A message for all sessions has been handed to both sessions of the map,
\* although the first delivery removed the second session.
C34_Witness ==
    /\ lastOp.op = "forwardToClient" /\ lastOp.res = "all"
    /\ lastOp.steps = <<1, 2>>
    /\ broker._sessions = {1}

\* A frame of the kit that is malformed or not recognised: an unknown first
\* token, a tile response without bytes or with a descriptor that does not
\* parse, an errortoall without cmd or kind.
Malformed(frame) ==
    \/ frame.command \notin {"tile:", "tilecombine:", "errortoall:", "procmemstats:"}
    \/ /\ frame.command \in {"tile:", "tilecombine:"}
       /\ frame.bytes = 0 \/ frame.descriptor = Unparsable
    \/ /\ frame.command = "errortoall:"
       /\ \/ Len(frame.args) < 2
          \/ \A i \in 1..Len(frame.args) : frame.args[i][1] # "cmd" \/ frame.args[i][2] = ""
          \/ \A i \in 1..Len(frame.args) : frame.args[i][1] # "kind" \/ frame.args[i][2] = ""

\* C35: a malformed or unrecognised frame of the kit is dropped: the broker
\* is left as it was (session map, flags, save timestamps, tile version,
\* tile cache, what the kit has been sent) and no session is sent anything.
C35_MalformedFrameDropped ==
    /\ [](\A frame \in KitFrames :
              (pc = "loop" /\ Malformed(frame))
                  => /\ handleInput(broker, frame) = broker
                     /\ handleInputSent(broker, frame) = {})
    /\ [][(lastOp'.op = "handleInput" /\ Malformed(lastOp'.steps[1]))
              => (broker' = broker /\ lastOp'.sent = {})]_vars

\* A tile response without bytes has been dropped while a session waits for
\* that tile to be rendered.
C35_Witness ==
    /\ lastOp.op = "handleInput"
    /\ lastOp.steps[1].command = "tile:" /\ lastOp.steps[1].bytes = 0
    /\ lastOp.steps[1].descriptor \in TileIds
    /\ broker.tilesBeingRendered[lastOp.steps[1].descriptor] # {}
    /\ broker.kitTiles[lastOp.steps[1].descriptor] > 0
    /\ lastOp.steps[1].descriptor \notin broker.cachedTiles

\* The tiles a frame to the kit asks for.
TilesOf(frame) == {frame[i].tile : i \in 1..Len(frame)}

\* C36: a tile request that the cache satisfies is answered to the session
\* that made it, and is neither subscribed nor sent to the kit; of a
\* tilecombine request the cached tiles are answered to the session, the
\* others, and only they, are subscribed and sent to the kit in one
\* tilecombine, and nothing is sent to the kit when every tile is cached.
C36_CachedTilesAnswered ==
    /\ [](\A tile \in CombinedTileIds, id \in broker._sessions, broadcast \in BOOLEAN :
              (pc = "loop" /\ tile \in broker.cachedTiles)
                  => LET b == handleTileRequest(broker, tile, id, broadcast)
                     IN  /\ handleTileRequestSent(broker, tile, id) = {<<id, "tile:">>}
                         /\ handleTileRequestKitFrames(broker, tile) = <<>>
                         /\ b.tilesBeingRendered = broker.tilesBeingRendered
                         /\ b.kitTiles = broker.kitTiles)
    /\ [][(lastOp'.op = "handleTileRequest" /\ lastOp'.res = "cached")
              => /\ broker'.tilesBeingRendered = broker.tilesBeingRendered
                 /\ broker'.kitTiles = broker.kitTiles
                 /\ lastOp'.steps = <<>>]_vars
    /\ [][(lastOp'.op = "handleTileCombinedRequest")
              => LET request == lastOp'.steps[1]
                     kitFrames == Tail(lastOp'.steps)
                     uncached == request.tiles \ broker.cachedTiles
                 IN  /\ request.answered = request.tiles \cap broker.cachedTiles
                     /\ Len(kitFrames) = IF uncached = {} THEN 0 ELSE 1
                     /\ \A i \in 1..Len(kitFrames) :
                            /\ TilesOf(kitFrames[i]) = uncached
                            /\ Len(kitFrames[i]) = Cardinality(uncached)
                     /\ \A t \in CombinedTileIds :
                            /\ broker'.tilesBeingRendered[t] =
                                   IF t \in uncached
                                   THEN broker.tilesBeingRendered[t] \cup {request.session}
                                   ELSE broker.tilesBeingRendered[t]
                            /\ broker'.kitTiles[t] =
                                   IF t \in uncached
                                   THEN broker.kitTiles[t] + 1 ELSE broker.kitTiles[t]]_vars

\* A tilecombine for two tiles, the first of them cached, has been
\* answered with the first tile and has sent the second to the kit.
C36_Witness ==
    /\ lastOp.op = "handleTileCombinedRequest"
    /\ lastOp.steps[1].tiles = {1, 2}
    /\ lastOp.steps[1].answered = {1}
    /\ Len(lastOp.steps) = 2
    /\ TilesOf(lastOp.steps[2]) = {2}
    /\ lastOp.steps[1].session \in broker.tilesBeingRendered[2]
    /\ broker.tilesBeingRendered[1] = {}

\* The frames the last operation sent to the kit for rendering.
RenderFrames(op) ==
    IF op.op = "handleTileCombinedRequest" THEN Tail(op.steps)
    ELSE IF op.op = "handleTileRequest" THEN op.steps
    ELSE <<>>

\* C37: the tile version of the broker never decreases, and every tile sent
\* to the kit for rendering, by a tile or a tilecombine request, carries a
\* version above the counter as the request found it, hence above the
\* version of every tile sent before, and above the version of the tiles
\* before it in the same frame.
C37_TileVersionsIncrease ==
    /\ [][broker'._tileVersion >= broker._tileVersion]_vars
    /\ [][\A i \in 1..Len(RenderFrames(lastOp')) :
              LET frame == RenderFrames(lastOp')[i]
              IN  \A j \in 1..Len(frame) :
                      /\ frame[j].ver > broker._tileVersion
                      /\ frame[j].ver <= broker'._tileVersion
                      /\ \A k \in 1..(j - 1) : frame[k].ver < frame[j].ver]_vars

\* A tilecombine has sent two tiles to the kit, with the versions 2 and 3,
\* after a tile was sent with the version 1.
C37_Witness ==
    /\ lastOp.op = "handleTileCombinedRequest"
    /\ Len(lastOp.steps) = 2
    /\ Len(lastOp.steps[2]) = 2
    /\ lastOp.steps[2][1].ver = 2 /\ lastOp.steps[2][2].ver = 3
    /\ broker._tileVersion = 3
    /\ \E t \in CombinedTileIds : broker.kitTiles[t] = 2

\* _lastEditableSession and _markToDestroy, as a pair.
DestroyFlags(b) == <<b._lastEditableSession, b._markToDestroy>>

\* removeSession(id, false), and removeSession(id, true) for a session that
\* is not in the map, leave the two flags alone; removeSession(id, false)
\* defers the removal and sends the forced save exactly when
\* _lastEditableSession, as it finds it, is true and autoSave sends.
RemoveSessionReadsFlags ==
    \A id \in SessionIds :
        pc = "loop" =>
            LET b == removeSession(broker, id, FALSE, now)
            IN  /\ DestroyFlags(b) = DestroyFlags(broker)
                /\ id \notin broker._sessions
                       => DestroyFlags(removeSession(broker, id, TRUE, now)) = DestroyFlags(broker)
                /\ IF broker._lastEditableSession /\ autoSaveSent(broker, TRUE, now)
                   THEN /\ b._sessions = broker._sessions
                        /\ Len(b.kitSaves) = Len(broker.kitSaves) + 1
                   ELSE /\ b._sessions = broker._sessions \ {id}
                        /\ b.kitSaves = broker.kitSaves

\* C38 as stated: the two flags change only in removeSession and in an
\* addSession that succeeds, which clears them; removeSession(id, false)
\* leaves them alone and reads _lastEditableSession as it finds it.
C38_FlagsByRemoveAndAdd ==
    /\ []RemoveSessionReadsFlags
    /\ [][(DestroyFlags(broker') # DestroyFlags(broker))
              => \/ lastOp'.op = "removeSession"
                 \/ /\ lastOp'.op = "addSession" /\ lastOp'.res = "ok"
                    /\ DestroyFlags(broker') = <<FALSE, FALSE>>]_vars

\* C38, amended: the two flags change only in removeSession, in an
\* addSession that succeeds, which clears them, and in an addSession that
\* fails on a broker without sessions, which sets _markToDestroy;
\* removeSession(id, false) leaves them alone and reads
\* _lastEditableSession as it finds it.
C38_FlagsByRemoveAddAndFailedAdd ==
    /\ []RemoveSessionReadsFlags
    /\ [][(DestroyFlags(broker') # DestroyFlags(broker))
              => \/ lastOp'.op = "removeSession"
                 \/ /\ lastOp'.op = "addSession" /\ lastOp'.res = "ok"
                    /\ DestroyFlags(broker') = <<FALSE, FALSE>>
                 \/ /\ lastOp'.op = "addSession" /\ lastOp'.res # "ok"
                    /\ broker._sessions = {}
                    /\ DestroyFlags(broker') = <<broker._lastEditableSession, TRUE>>]_vars

\* removeSession(2, false) of a reader has sent a forced save and left the
\* reader in the map, because _lastEditableSession was still true from the
\* departure of the writer, whose save is not yet answered.
C38_Witness ==
    /\ lastOp.op = "removeSession" /\ lastOp.res = "deferred"
    /\ broker._lastEditableSession /\ ~broker._markToDestroy
    /\ broker._sessions = {1, 2} /\ 2 \in broker.readOnly
    /\ Len(broker.kitSaves) = 2
    /\ broker.kitSaves[1].departing = 1 /\ broker.kitSaves[2].departing = 2

\* The kit is sent "child-<id> disconnect" between b and c: the session
\* leaves the map (removeSessionInternal), and the kit's sessions if the
\* kit lives.
Disconnects(b, c, id) ==
    \/ id \in b._sessions /\ id \notin c._sessions
    \/ id \in b.kitSessions /\ id \notin c.kitSessions /\ c._childProcess = "alive"

\* C39: a removeSession that defers the removal of the last editor sends
\* the kit the save and no "disconnect", so that the kit receives the save
\* before any "disconnect" for that session; "disconnect" is sent for a
\* session of the map only, as it leaves the map, and a session that has
\* left never comes back, so that it is sent at most once per session.
C39_SaveBeforeDisconnect ==
    /\ [](\A id \in SessionIds, destroyIfLast \in BOOLEAN :
              pc = "loop" =>
                  LET b == removeSession(broker, id, destroyIfLast, now)
                  IN  /\ Disconnects(broker, b, id)
                          => /\ id \in broker._sessions /\ id \notin b._sessions
                             /\ b.kitSaves = broker.kitSaves
                      /\ (Len(b.kitSaves) > Len(broker.kitSaves))
                          => /\ b.kitSessions = broker.kitSessions
                             /\ b._sessions = broker._sessions)
    /\ [][/\ \A id \in SessionIds :
                /\ Disconnects(broker, broker', id)
                      => /\ id \in broker._sessions /\ id \notin broker'._sessions
                         /\ id \notin broker'.kitSessions
                         /\ Len(broker'.kitSaves) <= Len(broker.kitSaves)
                /\ (id \in (broker'._sessions \ broker._sessions)
                       \/ id \in (broker'.kitSessions \ broker.kitSessions))
                      => (id = nextSessionId /\ nextSessionId' = id + 1)
          /\ nextSessionId' >= nextSessionId
          /\ (lastOp'.op = "removeSession" /\ lastOp'.res = "deferred")
                => /\ Len(broker'.kitSaves) = Len(broker.kitSaves) + 1
                   /\ broker'.kitSessions = broker.kitSessions]_vars

\* The save that the last editor's removal waited for has been answered:
\* only now has the session left the map and the kit's sessions.
C39_Witness ==
    /\ lastOp.op = "saveToStorage" /\ lastOp.departing = 1
    /\ broker._markToDestroy /\ broker._lastEditableSession
    /\ 1 \notin broker._sessions /\ 1 \notin broker.kitSessions
    /\ broker._childProcess = "alive" /\ nextSessionId > 1

\* No save has been requested yet: _lastSaveRequestTime is older than the
\* start of the thread (a request is stamped with the time it is sent at).
SaveNeverRequested == broker._lastSaveRequestTime < 0

\* The operations that reach sendUnoSave: the client's save command, the
\* autosave (called by itself, by the main loop, by removeSession and by
\* the teardown).
SaveRequesters ==
    {"sendUnoSave", "autoSave", "pollThread", "removeSession", "terminateChild",
     "childSocketTerminated", "closeDocument"}

\* C40: until the first save request is sent, the broker is not saving:
\* _lastSaveTime >= _lastSaveRequestTime, the save-in-progress test fails
\* at every reading of the clock since the construction, and every turn of
\* the main loop runs its timer checks; and _lastSaveRequestTime is only
\* written by an operation that requests a save, with the time of the
\* request.
C40_FreshBrokerNotSaving ==
    /\ [](SaveNeverRequested
              => /\ broker._lastSaveTime >= broker._lastSaveRequestTime
                 /\ \A t \in (0 - ClockStep)..now : ~SaveInProgress(broker, t))
    /\ [][/\ (SaveNeverRequested /\ lastOp'.op = "pollThread") => lastOp'.res = "checked"
          /\ (broker'._lastSaveRequestTime # broker._lastSaveRequestTime)
                => /\ broker'._lastSaveRequestTime = now
                   /\ lastOp'.op \in SaveRequesters]_vars

\* A turn of the main loop has run its checks for a broker with a session,
\* after the clock has advanced, before any save was requested.
C40_Witness ==
    /\ lastOp.op = "pollThread" /\ lastOp.res = "checked"
    /\ SaveNeverRequested
    /\ broker._sessions # {} /\ now > 0 /\ pc = "loop"

====
